---- MODULE Spec2Model ----
(***************************************************************************)
(* Model of the atom store (GroundingSpace / DistributedAtomSpace), of the *)
(* local conjunctive query evaluator and of the DAS query wire translator  *)
(* of hyperon-experimental.                                                *)
(***************************************************************************)
EXTENDS Integers, Sequences, FiniteSets, TLC

VARIABLES
    kind,       \* which space the mutations act on: "grounding" | "distributed"
    index,      \* the space's AtomIndex: the stored atoms, in storage order
    events,     \* SpaceEvents collected by the observer registered at construction
    call,       \* the last operation called on the space and its arguments
    ret,        \* what that call returned
    qres,       \* the BindingsSet returned by the last query
    input,      \* translate: the input text, one character per element
    output,     \* translate: the returned string, as a sequence of pieces
    tpc,        \* translate: "start" before the call, "done" after it
    das_node,   \* the DASNode shared by the adapter and its gRPC server thread
    bus,        \* the messages the node has sent to the remote, in order
    remote,     \* the remote peer: whether it can be reached, what it delivered
    qw,         \* query_with_das: the locals of the call and its position
    qw2,        \* the same for a second, concurrent caller of the adapter
    px,         \* the proxy and the locals of the poll loop of the query binary
    op,         \* NewDasOp::execute: its arguments and what it returned
    cm          \* a CachingMapper and the replace calls made on it so far

vars == <<kind, index, events, call, ret, qres, input, output, tpc,
          das_node, bus, remote, qw, qw2, px, op, cm>>
spaceVars == <<kind, index, events, call, ret, qres>>
translateVars == <<input, output, tpc>>
dasVars == <<das_node, bus, remote, qw, qw2, px, op>>
mapperVars == <<cm>>

(***************************************************************************)
(* Bounds                                                                  *)
(***************************************************************************)
MaxEvents == 4      \* observer events per behaviour of the mutation specification
MaxAtoms == 3       \* atoms handed to GroundingSpace::from_vec
MaxConj == 2        \* conjuncts of a generated conjunctive query
MaxLen == 5         \* characters of a generated translate input
MaxDepth == 2       \* nesting depth of a generated translate input
MaxNest == 5        \* parentheses around the leaf of a nested translate input
MaxMsgs == 2        \* messages (answers, for the binary) the remote delivers
MaxLocal == 1       \* observer events of the adapter during a distributed query

(***************************************************************************)
(* Atoms: Symbol(name), Variable(name), Expression(children)               *)
(***************************************************************************)
(* A variable is identified by its name and its id: 0 as written by the    *)
(* user, positive once made unique.                                        *)
Sym(n) == [t |-> "sym", n |-> n, id |-> 0, c |-> <<>>]
Var(n) == [t |-> "var", n |-> n, id |-> 0, c |-> <<>>]
Expr(c) == [t |-> "expr", n |-> "", id |-> 0, c |-> c]
NoAtom == [t |-> "none", n |-> "", id |-> 0, c |-> <<>>]

VarKey(a) == <<a.n, a.id>>
VarOf(k) == [t |-> "var", n |-> k[1], id |-> k[2], c |-> <<>>]

COMMA_SYMBOL == Sym(",")

RECURSIVE AtomVars(_)
AtomVars(a) ==
    IF a.t = "var" THEN {VarKey(a)}
    ELSE IF a.t = "expr" THEN UNION {AtomVars(a.c[i]) : i \in DOMAIN a.c}
    ELSE {}

RECURSIVE Count(_, _)
Count(s, a) ==
    IF s = <<>> THEN 0
    ELSE (IF Head(s) = a THEN 1 ELSE 0) + Count(Tail(s), a)

Range(s) == {s[i] : i \in DOMAIN s}

(***************************************************************************)
(* AtomIndex with the default AllowDuplication strategy                    *)
(***************************************************************************)
index_insert(idx, atom) == Append(idx, atom)

FirstPos(idx, atom) == CHOOSE i \in DOMAIN idx :
    idx[i] = atom /\ \A j \in DOMAIN idx : idx[j] = atom => i <= j

index_remove(idx, atom) ==
    IF \E i \in DOMAIN idx : idx[i] = atom
    THEN LET p == FirstPos(idx, atom)
         IN [index |-> SubSeq(idx, 1, p - 1) \o SubSeq(idx, p + 1, Len(idx)),
             removed |-> TRUE]
    ELSE [index |-> idx, removed |-> FALSE]

(***************************************************************************)
(* SpaceEvent and SpaceCommon::notify_all_observers                        *)
(***************************************************************************)
EvAdd(a) == [e |-> "Add", a |-> a, b |-> NoAtom]
EvRemove(a) == [e |-> "Remove", a |-> a, b |-> NoAtom]
EvReplace(from, to) == [e |-> "Replace", a |-> from, b |-> to]

notify_all_observers(evs, event) == Append(evs, event)

(***************************************************************************)
(* GroundingSpace::add / remove / replace                                  *)
(***************************************************************************)
GroundingSpace_add(idx, evs, atom) ==
    [index |-> index_insert(idx, atom),
     events |-> notify_all_observers(evs, EvAdd(atom)),
     ret |-> "unit"]

GroundingSpace_remove_always_notifies(idx, evs, atom) ==
    LET r == index_remove(idx, atom)
    IN [index |-> r.index,
        events |-> notify_all_observers(evs, EvRemove(atom)),
        ret |-> IF r.removed THEN "true" ELSE "false"]

GroundingSpace_remove_all(idx, evs, atom) ==
    LET is_removed == \E i \in DOMAIN idx : idx[i] = atom
    IN [index |-> SelectSeq(idx, LAMBDA x : x # atom),
        events |-> IF is_removed
                   THEN notify_all_observers(evs, EvRemove(atom))
                   ELSE evs,
        ret |-> IF is_removed THEN "true" ELSE "false"]

GroundingSpace_remove(idx, evs, atom) ==
    LET r == index_remove(idx, atom)
        is_removed == r.removed
    IN [index |-> r.index,
        events |-> IF is_removed
                   THEN notify_all_observers(evs, EvRemove(atom))
                   ELSE evs,
        ret |-> IF is_removed THEN "true" ELSE "false"]

GroundingSpace_replace_always_inserts(idx, evs, from, to) ==
    LET r == index_remove(idx, from)
        is_replaced == r.removed
    IN [index |-> index_insert(r.index, to),
        events |-> IF is_replaced
                   THEN notify_all_observers(evs, EvReplace(from, to))
                   ELSE evs,
        ret |-> IF is_replaced THEN "true" ELSE "false"]

GroundingSpace_replace(idx, evs, from, to) ==
    LET r == index_remove(idx, from)
        is_replaced == r.removed
    IN [index |-> IF is_replaced THEN index_insert(r.index, to) ELSE r.index,
        events |-> IF is_replaced
                   THEN notify_all_observers(evs, EvReplace(from, to))
                   ELSE evs,
        ret |-> IF is_replaced THEN "true" ELSE "false"]

(***************************************************************************)
(* DistributedAtomSpace::add / remove / replace (on its local index)       *)
(***************************************************************************)
DistributedAtomSpace_add(idx, evs, atom) ==
    [index |-> index_insert(idx, atom),
     events |-> notify_all_observers(evs, EvAdd(atom)),
     ret |-> "unit"]

DistributedAtomSpace_remove(idx, evs, atom) ==
    LET r == index_remove(idx, atom)
        is_removed == r.removed
    IN [index |-> r.index,
        events |-> IF is_removed
                   THEN notify_all_observers(evs, EvRemove(atom))
                   ELSE evs,
        ret |-> IF is_removed THEN "true" ELSE "false"]

DistributedAtomSpace_replace_silent(idx, evs, from, to) ==
    LET r == index_remove(idx, from)
        is_replaced == r.removed
    IN [index |-> IF is_replaced THEN index_insert(r.index, to) ELSE r.index,
        events |-> evs,
        ret |-> IF is_replaced THEN "true" ELSE "false"]

DistributedAtomSpace_replace(idx, evs, from, to) ==
    LET r == index_remove(idx, from)
        is_replaced == r.removed
    IN [index |-> IF is_replaced THEN index_insert(r.index, to) ELSE r.index,
        events |-> IF is_replaced
                   THEN notify_all_observers(evs, EvReplace(from, to))
                   ELSE evs,
        ret |-> IF is_replaced THEN "true" ELSE "false"]

(***************************************************************************)
(* The mutation specification: a space built by new(), an observer         *)
(* registered, then any sequence of add / remove / replace.                *)
(***************************************************************************)
MutAtoms == {Sym("a"), Expr(<<Sym("a"), Sym("b")>>)}

NoCall == [op |-> "none", a |-> NoAtom, b |-> NoAtom]

TranslateIdle ==
    /\ input = <<>>
    /\ output = <<>>
    /\ tpc = "idle"

(* CachingMapper::new: the mapper and an empty mapping *)
CachingMapper_new == [mapping |-> [key \in {} |-> ""]]

(* a CachingMapper nothing was asked of *)
MapperIdle == cm = [self |-> CachingMapper_new, calls |-> <<>>]

(* no DAS node, no distributed query, no query binary, no new-das call *)
NoVariables == [name \in {} |-> ""]

QwIdle ==
    [pc |-> "idle", count |-> 0, pattern |-> <<>>,
     variables |-> NoVariables, bindings_set |-> <<>>, answers |-> <<>>,
     polled |-> FALSE, sent |-> 0]

PxIdle ==
    [pc |-> "idle", max_query_answers |-> 0, count |-> 0,
     finished |-> FALSE, queue |-> <<>>, pushed |-> 0]

OpIdle == [pc |-> "idle", args |-> <<>>, ret |-> "none", nodes |-> 0, atoms |-> <<>>]

DasIdle ==
    /\ das_node = [status |-> "Ready", results |-> <<>>, handling |-> <<>>]
    /\ bus = <<>>
    /\ remote = [reachable |-> TRUE, delivered |-> 0, in_flight |-> 0, answered |-> 0,
                 finished |-> FALSE]
    /\ qw = QwIdle
    /\ qw2 = QwIdle
    /\ px = PxIdle
    /\ op = OpIdle

InitSpace ==
    /\ kind \in {"grounding", "distributed"}
    /\ index = <<>>
    /\ events = <<>>
    /\ call = NoCall
    /\ ret = "none"
    /\ qres = <<>>
    /\ TranslateIdle
    /\ MapperIdle
    /\ DasIdle

Apply(r, c) ==
    /\ index' = r.index
    /\ events' = r.events
    /\ ret' = r.ret
    /\ call' = c
    /\ UNCHANGED <<kind, qres, translateVars, mapperVars, dasVars>>

GAdd(atom) ==
    /\ kind = "grounding"
    /\ Len(events) < MaxEvents
    /\ Apply(GroundingSpace_add(index, events, atom),
             [op |-> "add", a |-> atom, b |-> NoAtom])

GRemove(atom) ==
    /\ kind = "grounding"
    /\ Len(events) < MaxEvents
    /\ Apply(GroundingSpace_remove(index, events, atom),
             [op |-> "remove", a |-> atom, b |-> NoAtom])

GReplace(from, to) ==
    /\ kind = "grounding"
    /\ Len(events) < MaxEvents
    /\ Apply(GroundingSpace_replace(index, events, from, to),
             [op |-> "replace", a |-> from, b |-> to])

DAdd(atom) ==
    /\ kind = "distributed"
    /\ Len(events) < MaxEvents
    /\ Apply(DistributedAtomSpace_add(index, events, atom),
             [op |-> "add", a |-> atom, b |-> NoAtom])

DRemove(atom) ==
    /\ kind = "distributed"
    /\ Len(events) < MaxEvents
    /\ Apply(DistributedAtomSpace_remove(index, events, atom),
             [op |-> "remove", a |-> atom, b |-> NoAtom])

DReplace(from, to) ==
    /\ kind = "distributed"
    /\ Len(events) < MaxEvents
    /\ Apply(DistributedAtomSpace_replace(index, events, from, to),
             [op |-> "replace", a |-> from, b |-> to])

NextSpace ==
    \/ \E atom \in MutAtoms : GAdd(atom)
    \/ \E atom \in MutAtoms : GRemove(atom)
    \/ \E from \in MutAtoms, to \in MutAtoms : GReplace(from, to)
    \/ \E atom \in MutAtoms : DAdd(atom)
    \/ \E atom \in MutAtoms : DRemove(atom)
    \/ \E from \in MutAtoms, to \in MutAtoms : DReplace(from, to)

Spec == InitSpace /\ [][NextSpace]_vars

(***************************************************************************)
(* C4: remove(a) on a store holding no atom equal to a returns false,      *)
(* leaves the stored atoms unchanged and sends no event to the observers.  *)
(***************************************************************************)
C4_RemoveAbsent ==
    [][(call'.op = "remove" /\ Count(index, call'.a) = 0)
        => (ret' = "false" /\ index' = index /\ events' = events)]_vars

C4_Witness ==
    /\ call.op = "remove"
    /\ ret = "false"
    /\ Len(index) > 0
    /\ Count(index, call.a) = 0

(***************************************************************************)
(* C5: with duplicates allowed, one remove of an atom stored k >= 1 times  *)
(* returns true and leaves k-1 occurrences of it; the occurrences of every *)
(* other atom, and their order, are untouched.                             *)
(***************************************************************************)
C5_RemoveOneOccurrence ==
    [][(call'.op = "remove" /\ Count(index, call'.a) >= 1)
        => /\ ret' = "true"
           /\ Count(index', call'.a) = Count(index, call'.a) - 1
           /\ SelectSeq(index', LAMBDA x : x # call'.a)
                = SelectSeq(index, LAMBDA x : x # call'.a)]_vars

C5_Witness ==
    /\ call.op = "remove"
    /\ ret = "true"
    /\ Count(index, call.a) >= 1
    /\ \E x \in Range(index) : x # call.a

(***************************************************************************)
(* C6: replace(from, to) returns true iff from is stored; when true one    *)
(* occurrence of from is removed and one of to added (same atom count);    *)
(* when false the store is unchanged and to is not added.                  *)
(***************************************************************************)
C6_Replace ==
    [][call'.op = "replace"
        => /\ (ret' = "true") <=> (Count(index, call'.a) >= 1)
           /\ ret' \in {"true", "false"}
           /\ ret' = "true" =>
                /\ Len(index') = Len(index)
                /\ \A x \in MutAtoms :
                     Count(index', x) = Count(index, x)
                        - (IF x = call'.a THEN 1 ELSE 0)
                        + (IF x = call'.b THEN 1 ELSE 0)
           /\ ret' = "false" => index' = index]_vars

C6_Witness ==
    /\ call.op = "replace"
    /\ ret = "true"
    /\ call.a # call.b
    /\ Count(index, call.a) >= 1
    /\ Count(index, call.b) >= 1

(***************************************************************************)
(* C7: the observer receives exactly one event per successful mutation, in *)
(* call order: Add(a) for every add, Remove(a) only for a remove that      *)
(* returned true, Replace(from, to) only for a replace that returned true; *)
(* a failed remove or replace emits nothing.                               *)
(***************************************************************************)
C7_EventPerMutation ==
    [][/\ call'.op = "add" =>
            events' = Append(events, EvAdd(call'.a))
       /\ (call'.op = "remove" /\ ret' = "true") =>
            events' = Append(events, EvRemove(call'.a))
       /\ (call'.op = "replace" /\ ret' = "true") =>
            events' = Append(events, EvReplace(call'.a, call'.b))
       /\ (call'.op \in {"remove", "replace"} /\ ret' = "false") =>
            events' = events]_vars

C7_Witness ==
    /\ kind = "distributed"
    /\ call.op \in {"remove", "replace"}
    /\ ret = "false"
    /\ \E i, j, k \in DOMAIN events :
         /\ i < j /\ j < k
         /\ events[i].e = "Add"
         /\ events[j].e = "Replace"
         /\ events[k].e = "Remove"

(***************************************************************************)
(* Bindings: a set of binding groups, each a set of variables known to be  *)
(* equal and the atom they are bound to (NoAtom when only equated).        *)
(* BindingsSet: a sequence of alternative Bindings.                        *)
(***************************************************************************)
BindingsSet_empty == <<>>
BindingsSet_single == <<{}>>

BindingOf(b, v) ==
    IF \E g \in b : v \in g.vars
    THEN CHOOSE g \in b : v \in g.vars
    ELSE [vars |-> {v}, val |-> NoAtom]

RECURSIVE match_atoms_recursively(_, _)
RECURSIVE match_children(_, _, _, _)
RECURSIVE add_var_binding(_, _, _)
RECURSIVE add_var_equality(_, _, _)
RECURSIVE Bindings_merge(_, _)
RECURSIVE BindingsSet_merge(_, _)
RECURSIVE merge_each(_, _)
RECURSIVE equate_all(_, _, _)

(* self.merge(other) for every self of a set: the surviving merges *)
merge_each(bs, b) ==
    IF bs = <<>> THEN <<>>
    ELSE Bindings_merge(Head(bs), b) \o merge_each(Tail(bs), b)

BindingsSet_merge(s1, s2) ==
    IF s2 = <<>> THEN <<>>
    ELSE merge_each(s1, Head(s2)) \o BindingsSet_merge(s1, Tail(s2))

add_var_binding(b, v, atom) ==
    LET g == BindingOf(b, v)
    IN IF g.val = NoAtom
       THEN <<(b \ {g}) \cup {[vars |-> g.vars, val |-> atom]}>>
       ELSE BindingsSet_merge(<<b>>, match_atoms_recursively(g.val, atom))

add_var_equality(b, v1, v2) ==
    LET g1 == BindingOf(b, v1)
        g2 == BindingOf(b, v2)
        joined == (b \ {g1, g2}) \cup
                  {[vars |-> g1.vars \cup g2.vars,
                    val |-> IF g1.val # NoAtom THEN g1.val ELSE g2.val]}
    IN IF v2 \in g1.vars THEN <<b>>
       ELSE IF g1.val # NoAtom /\ g2.val # NoAtom
            THEN BindingsSet_merge(<<joined>>,
                                   match_atoms_recursively(g1.val, g2.val))
            ELSE <<joined>>

(* all variables of vs made equal to v, in every Bindings of bs *)
equate_all(bs, v, vs) ==
    IF vs = {} \/ bs = <<>> THEN bs
    ELSE LET w == CHOOSE x \in vs : TRUE
         IN equate_all(add_var_equality(Head(bs), v, w), v, vs \ {w})

Bindings_merge(a, b) ==
    IF b = {} THEN <<a>>
    ELSE LET g == CHOOSE x \in b : TRUE
             v == CHOOSE x \in g.vars : TRUE
             eq == equate_all(<<a>>, v, g.vars \ {v})
             bound == IF eq = <<>> \/ g.val = NoAtom THEN eq
                      ELSE add_var_binding(Head(eq), v, g.val)
         IN IF bound = <<>> THEN <<>>
            ELSE Bindings_merge(Head(bound), b \ {g})

match_children(lc, rc, i, acc) ==
    IF i > Len(lc) THEN acc
    ELSE match_children(lc, rc, i + 1,
            BindingsSet_merge(acc, match_atoms_recursively(lc[i], rc[i])))

match_atoms_recursively(left, right) ==
    CASE left.t = "sym" /\ right.t = "sym" ->
            IF left.n = right.n THEN BindingsSet_single ELSE BindingsSet_empty
      [] left.t = "var" /\ right.t = "var" ->
            add_var_equality({}, VarKey(left), VarKey(right))
      [] left.t = "var" /\ right.t # "var" ->
            add_var_binding({}, VarKey(left), right)
      [] left.t # "var" /\ right.t = "var" ->
            add_var_binding({}, VarKey(right), left)
      [] left.t = "expr" /\ right.t = "expr" ->
            IF Len(left.c) = Len(right.c)
            THEN match_children(left.c, right.c, 1, BindingsSet_single)
            ELSE BindingsSet_empty
      [] OTHER -> BindingsSet_empty

(* No atom of the universes below can be bound to a term containing itself,
   so the filter on bindings with loops never removes a result here. *)
match_atoms(left, right) == match_atoms_recursively(left, right)

narrow_vars(b, vs) ==
    LET kept == {[vars |-> g.vars \cap vs, val |-> g.val] :
                    g \in {x \in b : x.vars \cap vs # {}}}
    IN {g \in kept : g.val # NoAtom \/ Cardinality(g.vars) > 1}

RECURSIVE apply_bindings_to_atom_move(_, _)
apply_bindings_to_atom_move(atom, b) ==
    CASE atom.t = "var" ->
            LET g == BindingOf(b, VarKey(atom))
            IN IF g.val # NoAtom THEN apply_bindings_to_atom_move(g.val, b)
               ELSE IF Cardinality(g.vars) > 1
                    THEN VarOf(CHOOSE k \in g.vars : k # VarKey(atom))
                    ELSE atom
      [] atom.t = "expr" ->
            Expr([i \in DOMAIN atom.c |->
                    apply_bindings_to_atom_move(atom.c[i], b)])
      [] OTHER -> atom

(***************************************************************************)
(* AtomIndex::query: one match per stored atom, in storage order. The      *)
(* variables of a stored atom are made unique before it is matched; uid    *)
(* stands for the value of the variable id counter at the call.            *)
(***************************************************************************)
RECURSIVE make_variables_unique(_, _)
make_variables_unique(atom, uid) ==
    CASE atom.t = "var" -> [atom EXCEPT !.id = uid]
      [] atom.t = "expr" ->
            Expr([i \in DOMAIN atom.c |-> make_variables_unique(atom.c[i], uid)])
      [] OTHER -> atom

RECURSIVE index_query(_, _, _)
index_query(idx, q, uid) ==
    IF idx = <<>> THEN <<>>
    ELSE match_atoms(make_variables_unique(Head(idx), uid), q)
            \o index_query(Tail(idx), q, uid)

(***************************************************************************)
(* GroundingSpace::single_query and GroundingSpace::query                  *)
(***************************************************************************)
single_query_first_only(idx, q, uid) ==
    LET query_vars == AtomVars(q)
        found == index_query(idx, q, uid)
    IN IF found = <<>> THEN <<>>
       ELSE <<narrow_vars(found[1], query_vars)>>

single_query_unnarrowed(idx, q, uid) == index_query(idx, q, uid)

single_query(idx, q, uid) ==
    LET query_vars == AtomVars(q)
        found == index_query(idx, q, uid)
    IN [i \in DOMAIN found |-> narrow_vars(found[i], query_vars)]

split_expr(atom) ==
    IF atom.t = "expr" /\ Len(atom.c) > 0
    THEN [some |-> TRUE, op |-> atom.c[1], args |-> Tail(atom.c)]
    ELSE [some |-> FALSE, op |-> NoAtom, args |-> <<>>]

IsConjunction(q) ==
    LET sp == split_expr(q)
    IN sp.some /\ sp.op.t = "sym" /\ sp.op = COMMA_SYMBOL

RECURSIVE query(_, _, _)
RECURSIVE query_fold(_, _, _, _, _)
RECURSIVE query_conjunct(_, _, _, _)
RECURSIVE merge_with_prev(_, _)

merge_with_prev_forgotten(res, prev) == res

merge_with_prev_first_only(res, prev) ==
    IF res = <<>> THEN <<>> ELSE Bindings_merge(Head(res), prev)

(* res.drain(0..).flat_map(|next| next.merge(&prev)).collect() *)
merge_with_prev(res, prev) ==
    IF res = <<>> THEN <<>>
    ELSE Bindings_merge(Head(res), prev) \o merge_with_prev(Tail(res), prev)

query_conjunct_first_prev_only(idx, conjunct, acc, uid) ==
    IF acc = <<>> THEN <<>>
    ELSE LET prev == Head(acc)
             q == apply_bindings_to_atom_move(conjunct, prev)
             res == query(idx, q, uid)
         IN merge_with_prev(res, prev)

(* acc.drain(0..).flat_map(|prev| ...).collect() for one conjunct *)
query_conjunct(idx, conjunct, acc, uid) ==
    IF acc = <<>> THEN <<>>
    ELSE LET prev == Head(acc)
             q == apply_bindings_to_atom_move(conjunct, prev)
             res == query(idx, q, uid)
         IN merge_with_prev(res, prev)
                \o query_conjunct(idx, conjunct, Tail(acc), uid)

query_fold_restarted(idx, args, i, acc, uid) ==
    IF i > Len(args) THEN acc
    ELSE query_fold(idx, args, i + 1,
            query_conjunct(idx, args[i],
                IF acc = <<>> THEN BindingsSet_single ELSE acc, 10 * uid + i),
            uid)

(* args.fold(BindingsSet::single(), |acc, query| ...) from conjunct i on; *)
(* the queries of conjunct i draw their variable ids after those of the   *)
(* conjuncts before it                                                    *)
query_fold(idx, args, i, acc, uid) ==
    IF i > Len(args) THEN acc
    ELSE query_fold(idx, args, i + 1,
            IF acc = <<>> THEN acc
            ELSE query_conjunct(idx, args[i], acc, 10 * uid + i),
            uid)

query_unmatched_single(idx, q, uid) ==
    IF IsConjunction(q)
    THEN query_fold(idx, split_expr(q).args, 1, BindingsSet_single, uid)
    ELSE LET result == single_query(idx, q, uid)
         IN IF result = <<>> THEN BindingsSet_single ELSE result

query(idx, q, uid) ==
    IF IsConjunction(q)
    THEN query_fold(idx, split_expr(q).args, 1, BindingsSet_single, uid)
    ELSE single_query(idx, q, uid)

(* The calls self.query(&query) the fold makes from conjunct i on, in the *)
(* order it makes them: one per Bindings of a non-empty accumulator, none *)
(* for an empty one.                                                      *)
RECURSIVE store_queries(_, _, _, _, _)
store_queries(idx, args, i, acc, uid) ==
    IF i > Len(args) THEN <<>>
    ELSE [k \in DOMAIN acc |->
             [conjunct |-> i,
              q |-> apply_bindings_to_atom_move(args[i], acc[k])]]
         \o store_queries(idx, args, i + 1,
                IF acc = <<>> THEN acc
                ELSE query_conjunct(idx, args[i], acc, 10 * uid + i),
                uid)

(* The accumulator of the fold after its first n conjuncts *)
accumulator_after(idx, args, n, uid) ==
    query_fold(idx, SubSeq(args, 1, n), 1, BindingsSet_single, uid)

(***************************************************************************)
(* The query specification: a GroundingSpace built by from_vec, then one   *)
(* query (query takes &self: it leaves the space as it found it).          *)
(***************************************************************************)
A == Sym("A")
B == Sym("B")
C == Sym("C")
X == Var("x")
Y == Var("y")

GroundStoreAtoms == {A, Expr(<<A, B>>), Expr(<<B, C>>), Expr(<<A, C>>)}
StoreAtoms == GroundStoreAtoms \cup {Expr(<<A, Var("d")>>)}

SinglePatterns ==
    {A, X, Expr(<<>>), Expr(<<A, B>>), Expr(<<A, X>>), Expr(<<X, C>>),
     Expr(<<X, Y>>), Expr(<<X, X>>)}
ConjPatterns ==
    {Expr(<<A, X>>), Expr(<<X, C>>), Expr(<<X, Y>>), Expr(<<B, Y>>), X}

SeqsUpTo(S, n) == UNION {[1..k -> S] : k \in 0..n}

Conjunction(cs) == Expr(<<COMMA_SYMBOL>> \o cs)

Queries ==
    SinglePatterns \cup {Conjunction(cs) : cs \in SeqsUpTo(ConjPatterns, MaxConj)}

from_vec(atoms) == atoms

InitQuery ==
    /\ kind = "grounding"
    /\ index \in {from_vec(atoms) : atoms \in SeqsUpTo(StoreAtoms, MaxAtoms)}
    /\ events = <<>>
    /\ call = NoCall
    /\ ret = "none"
    /\ qres = <<>>
    /\ TranslateIdle
    /\ MapperIdle
    /\ DasIdle

Query(q) ==
    /\ kind = "grounding"
    /\ call.op = "none"
    /\ call' = [op |-> "query", a |-> q, b |-> NoAtom]
    /\ qres' = query(index, q, 1)
    /\ ret' = "bindings"
    /\ UNCHANGED <<kind, index, events, translateVars, mapperVars, dasVars>>

NextQuery == \E q \in Queries : Query(q)

SpecQuery == InitQuery /\ [][NextQuery]_vars

(***************************************************************************)
(* What a query is meant to return, stated without the matcher: a stored   *)
(* atom unifies with a pattern iff one assignment of variable-free atoms   *)
(* to the variables of both makes them equal.                              *)
(***************************************************************************)
GroundValues == {A, B, C, Expr(<<A, B>>), Expr(<<B, C>>), Expr(<<A, C>>)}

RECURSIVE Subst(_, _)
Subst(atom, sigma) ==
    CASE atom.t = "var" ->
            IF VarKey(atom) \in DOMAIN sigma THEN sigma[VarKey(atom)] ELSE atom
      [] atom.t = "expr" ->
            Expr([i \in DOMAIN atom.c |-> Subst(atom.c[i], sigma)])
      [] OTHER -> atom

Unifies(pattern, atom) ==
    \E sigma \in [AtomVars(pattern) \cup AtomVars(atom) -> GroundValues] :
        Subst(pattern, sigma) = Subst(atom, sigma)

IsGround(idx) == \A i \in DOMAIN idx : AtomVars(idx[i]) = {}

Applied(q, bs) == [i \in DOMAIN bs |-> apply_bindings_to_atom_move(q, bs[i])]

Occurrences(idx, q) == Cardinality({i \in DOMAIN idx : Unifies(q, idx[i])})

SingleQueryCalled == call.op = "query" /\ ~IsConjunction(call.a)

QuerySound ==
    \A i \in DOMAIN qres : Applied(call.a, qres)[i] \in Range(index)

QueryComplete ==
    /\ Len(qres) = Occurrences(index, call.a)
    /\ \A a \in Range(index) :
         Unifies(call.a, a) => Count(Applied(call.a, qres), a) = Count(index, a)

ConjunctOrders(n) == {p \in [1..n -> 1..n] : \A i, j \in 1..n : p[i] = p[j] => i = j}

Permuted(q, p) == Conjunction([i \in DOMAIN p |-> split_expr(q).args[p[i]]])

SameUpToOrder(s1, s2) ==
    \A b \in Range(s1) \cup Range(s2) : Count(s1, b) = Count(s2, b)

(* Two results are the same when they differ only in the ids given to the
   variables of stored atoms when these were made unique. *)
RECURSIVE RenameAtom(_, _)
RenameAtom(atom, pi) ==
    CASE atom.t = "var" ->
            IF atom.id = 0 THEN atom ELSE [atom EXCEPT !.id = pi[atom.id]]
      [] atom.t = "expr" ->
            Expr([i \in DOMAIN atom.c |-> RenameAtom(atom.c[i], pi)])
      [] OTHER -> atom

RenameBindings(b, pi) ==
    {[vars |-> {VarKey(RenameAtom(VarOf(k), pi)) : k \in g.vars},
      val |-> RenameAtom(g.val, pi)] : g \in b}

UniqueIds(bs) ==
    {k[2] : k \in UNION {g.vars \cup AtomVars(g.val) :
                            g \in UNION Range(bs)}} \ {0}

SameUpToRenaming(s1, s2) ==
    \E pi \in [UniqueIds(s1) -> UniqueIds(s2)] :
        /\ \A i, j \in DOMAIN pi : pi[i] = pi[j] => i = j
        /\ SameUpToOrder([i \in DOMAIN s1 |-> RenameBindings(s1[i], pi)], s2)

ConjunctiveQueryCalled == call.op = "query" /\ IsConjunction(call.a)

C2_ConjunctOrder ==
    ConjunctiveQueryCalled =>
        \A p \in ConjunctOrders(Len(split_expr(call.a).args)) :
            SameUpToRenaming(query(index, Permuted(call.a, p), 1), qres)

C2_Witness ==
    /\ ConjunctiveQueryCalled
    /\ Len(split_expr(call.a).args) >= 2
    /\ split_expr(call.a).args[1] # split_expr(call.a).args[2]
    /\ Len(qres) >= 2
    /\ \E b \in Range(qres) : Cardinality(b) >= 2

(***************************************************************************)
(* C3: a conjunctive query is the left-to-right fold from one empty        *)
(* Bindings, so every returned Bindings satisfies all conjuncts at once    *)
(* with one value per shared variable: with no conjunct the result is the  *)
(* one empty Bindings; each conjunct with a returned Bindings applied      *)
(* unifies with a stored atom; over a variable-free store there is one     *)
(* Bindings per choice of one stored occurrence for each conjunct that a   *)
(* single assignment of the variables produces; store {(A B), (B C)} and   *)
(* query (, (A $x) ($x C)) give exactly {x: B}.                            *)
(***************************************************************************)
Conjuncts == split_expr(call.a).args

JointChoices(idx, ps) ==
    {pos \in [DOMAIN ps -> DOMAIN idx] :
        \E sigma \in [UNION {AtomVars(ps[k]) : k \in DOMAIN ps} -> GroundValues] :
            \A k \in DOMAIN ps : Subst(ps[k], sigma) = idx[pos[k]]}

ExampleStore == <<Expr(<<A, B>>), Expr(<<B, C>>)>>
ExampleQuery == Conjunction(<<Expr(<<A, X>>), Expr(<<X, C>>)>>)

C3_ConjunctionFold ==
    ConjunctiveQueryCalled =>
        /\ Conjuncts = <<>> => qres = BindingsSet_single
        /\ \A i \in DOMAIN qres : \A k \in DOMAIN Conjuncts :
             \E j \in DOMAIN index :
                Unifies(apply_bindings_to_atom_move(Conjuncts[k], qres[i]),
                        index[j])
        /\ IsGround(index) =>
             /\ Len(qres) = Cardinality(JointChoices(index, Conjuncts))
             /\ \A i \in DOMAIN qres : \A k \in DOMAIN Conjuncts :
                  apply_bindings_to_atom_move(Conjuncts[k], qres[i])
                      \in Range(index)
        /\ (index = ExampleStore /\ call.a = ExampleQuery) =>
             qres = <<{[vars |-> {VarKey(X)}, val |-> B]}>>

C3_Witness ==
    /\ ConjunctiveQueryCalled
    /\ index = ExampleStore
    /\ call.a = ExampleQuery
    /\ Len(qres) = 1

(***************************************************************************)
(* C22: a query, conjunctive or not, for which no stored atom unifies (for *)
(* a conjunction: some conjunct unifies with no stored atom) returns the   *)
(* empty BindingsSet, returns normally, and leaves the store as it was.    *)
(***************************************************************************)
NoStoredAtomUnifies(idx, q) ==
    IF IsConjunction(q)
    THEN \E k \in DOMAIN split_expr(q).args :
            \A j \in DOMAIN idx : ~Unifies(split_expr(q).args[k], idx[j])
    ELSE \A j \in DOMAIN idx : ~Unifies(q, idx[j])

C22_NoMatchEmpty ==
    [][(call'.op = "query" /\ NoStoredAtomUnifies(index, call'.a)) =>
          /\ qres' = BindingsSet_empty
          /\ ret' = "bindings"
          /\ index' = index
          /\ events' = events]_vars

C22_Witness ==
    /\ ConjunctiveQueryCalled
    /\ Len(Conjuncts) = 2
    /\ Len(index) >= 2
    /\ AtomVars(Conjuncts[1]) # {}
    /\ \E j \in DOMAIN index : Unifies(Conjuncts[1], index[j])
    /\ \A j \in DOMAIN index : ~Unifies(Conjuncts[2], index[j])
    /\ qres = BindingsSet_empty

(***************************************************************************)
(* C24: in a conjunctive query, once the accumulator is empty after some   *)
(* conjunct, the fold issues no store query for any later conjunct and the *)
(* final result is the empty BindingsSet.                                  *)
(***************************************************************************)
IssuedQueries == store_queries(index, Conjuncts, 1, BindingsSet_single, 1)

C24_ShortCircuit ==
    ConjunctiveQueryCalled =>
        \A n \in DOMAIN Conjuncts :
            accumulator_after(index, Conjuncts, n, 1) = BindingsSet_empty =>
                /\ \A k \in DOMAIN IssuedQueries : IssuedQueries[k].conjunct <= n
                /\ qres = BindingsSet_empty

C24_Witness ==
    /\ ConjunctiveQueryCalled
    /\ Len(Conjuncts) = 2
    /\ accumulator_after(index, Conjuncts, 1, 1) = BindingsSet_empty
    /\ Len(IssuedQueries) = 1
    /\ \E j \in DOMAIN index : Unifies(Conjuncts[2], index[j])
    /\ qres = BindingsSet_empty

(***************************************************************************)
(* C26: every Bindings returned for a non-conjunctive query binds only     *)
(* variables of the query atom: no variable of a stored atom, however it   *)
(* was renamed for the match, is a bound key.                              *)
(***************************************************************************)
BoundKeys(b) == UNION {g.vars : g \in b}

C26_OnlyQueryVariables ==
    SingleQueryCalled =>
        \A i \in DOMAIN qres : BoundKeys(qres[i]) \subseteq AtomVars(call.a)

C26_Witness ==
    /\ SingleQueryCalled
    /\ Cardinality(AtomVars(call.a)) = 2
    /\ Len(qres) = Len(index)
    /\ \E j \in DOMAIN index : AtomVars(index[j]) # {}
    /\ \E j \in DOMAIN index : AtomVars(index[j]) = {}
    /\ \E i \in DOMAIN qres : BoundKeys(qres[i]) = AtomVars(call.a)

(***************************************************************************)
(* C27: within a conjunction of two conjuncts over a variable-free store,  *)
(* a choice of one stored atom per conjunct yields a Bindings exactly when *)
(* one assignment of the variables produces both atoms: a candidate of the *)
(* second conjunct that needs another value for a shared variable than the *)
(* accumulated Bindings is dropped, the query returns normally, and the    *)
(* other candidates of the same conjunct are kept.                         *)
(***************************************************************************)
JointlyUnifiable(p1, a1, p2, a2) ==
    \E sigma \in [AtomVars(p1) \cup AtomVars(p2) -> GroundValues] :
        Subst(p1, sigma) = a1 /\ Subst(p2, sigma) = a2

Contributes(a1, a2) ==
    \E i \in DOMAIN qres :
        /\ apply_bindings_to_atom_move(Conjuncts[1], qres[i]) = a1
        /\ apply_bindings_to_atom_move(Conjuncts[2], qres[i]) = a2

NestedConjunct == Conjunction(<<Expr(<<A, X>>)>>)
NestedStoreAtoms ==
    {Expr(<<A, B>>), Expr(<<A, C>>), Expr(<<B, C>>),
     Conjunction(<<Expr(<<A, B>>)>>)}
NestedConjuncts == {NestedConjunct, Expr(<<A, X>>), Expr(<<X, C>>)}
NestedQueries ==
    {Conjunction(cs) : cs \in
        {c \in SeqsUpTo(NestedConjuncts, MaxConj) :
            \E k \in DOMAIN c : c[k] = NestedConjunct}}

InitNested ==
    /\ kind = "grounding"
    /\ index \in {from_vec(atoms) : atoms \in SeqsUpTo(NestedStoreAtoms, MaxAtoms)}
    /\ events = <<>>
    /\ call = NoCall
    /\ ret = "none"
    /\ qres = <<>>
    /\ TranslateIdle
    /\ MapperIdle
    /\ DasIdle

NextNested == \E q \in NestedQueries : Query(q)

SpecNested == InitNested /\ [][NextNested]_vars

(***************************************************************************)
(* C25: a conjunct that is itself headed by ',' is matched as an ordinary  *)
(* pattern against the stored atoms, not expanded as a nested conjunction: *)
(* with every returned Bindings applied it unifies with a stored atom, and *)
(* when it is the only conjunct there is one Bindings per stored           *)
(* occurrence that unifies with it.                                        *)
(***************************************************************************)
C25_ConjunctAsPattern ==
    ConjunctiveQueryCalled =>
        /\ \A k \in DOMAIN Conjuncts : IsConjunction(Conjuncts[k]) =>
              \A i \in DOMAIN qres : \E j \in DOMAIN index :
                  Unifies(apply_bindings_to_atom_move(Conjuncts[k], qres[i]),
                          index[j])
        /\ (Len(Conjuncts) = 1 /\ IsConjunction(Conjuncts[1])) =>
              Len(qres) = Occurrences(index, Conjuncts[1])

(***************************************************************************)
(* The query wire translator (rust-das helpers).                           *)
(* A string is a sequence of pieces (single characters of the input,       *)
(* keywords of the output) whose concatenation is the string.              *)
(***************************************************************************)
RECURSIVE Str(_)
Str(s) == IF s = <<>> THEN "" ELSE Head(s) \o Str(Tail(s))

TokSymbol(s) == [k |-> "Symbol", s |-> s]
TokVariable(s) == [k |-> "Variable", s |-> s]
OpenParen == [k |-> "OpenParen", s |-> <<>>]
CloseParen == [k |-> "CloseParen", s |-> <<>>]

NodeSymbol(s) == [k |-> "Symbol", s |-> s, c |-> <<>>]
NodeVariable(s) == [k |-> "Variable", s |-> s, c |-> <<>>]
NodeExpression(c) == [k |-> "Expression", s |-> <<>>, c |-> c]
NoNode == [k |-> "None", s |-> <<>>, c |-> <<>>]

classify_token(s) ==
    IF s # <<>> /\ Head(s) = "$"
    THEN TokVariable(Tail(s))
    ELSE TokSymbol(s)

Flush(tokens, current) ==
    IF current # <<>> THEN Append(tokens, classify_token(current)) ELSE tokens

RECURSIVE tokenize_from(_, _, _, _, _)
tokenize_from(inp, i, tokens, current, in_quotes) ==
    IF i > Len(inp)
    THEN Flush(tokens, current)
    ELSE LET ch == inp[i]
         IN CASE ch = "\"" /\ ~in_quotes ->
                    tokenize_from(inp, i + 1, Flush(tokens, current), <<ch>>, TRUE)
              [] ch = "\"" /\ in_quotes ->
                    tokenize_from(inp, i + 1,
                        Append(tokens, TokSymbol(Append(current, ch))), <<>>, FALSE)
              [] ch = "(" /\ ~in_quotes ->
                    tokenize_from(inp, i + 1,
                        Append(Flush(tokens, current), OpenParen), <<>>, in_quotes)
              [] ch = ")" /\ ~in_quotes ->
                    tokenize_from(inp, i + 1,
                        Append(Flush(tokens, current), CloseParen), <<>>, in_quotes)
              [] ch \in {" ", "\n", "\t"} /\ ~in_quotes ->
                    tokenize_from(inp, i + 1, Flush(tokens, current), <<>>, in_quotes)
              [] OTHER ->
                    tokenize_from(inp, i + 1, tokens, Append(current, ch), in_quotes)

tokenize(inp) == tokenize_from(inp, 1, <<>>, <<>>, FALSE)

(* Parser::parse_expression: the node parsed, or none, and the tokens left *)
ParseNone == [some |-> FALSE, node |-> NoNode, rest |-> <<>>]

RECURSIVE parse_expression(_)
RECURSIVE parse_nodes(_, _)

parse_nodes_closed_by_end(tokens, nodes) ==
    IF tokens = <<>>
    THEN [some |-> TRUE, node |-> NodeExpression(nodes), rest |-> <<>>]
    ELSE IF Head(tokens).k = "CloseParen"
         THEN [some |-> TRUE, node |-> NodeExpression(nodes), rest |-> Tail(tokens)]
         ELSE LET r == parse_expression(tokens)
              IN IF r.some THEN parse_nodes(r.rest, Append(nodes, r.node))
                 ELSE ParseNone

(* the while loop that collects the children up to the closing parenthesis *)
parse_nodes(tokens, nodes) ==
    IF tokens = <<>> THEN ParseNone
    ELSE IF Head(tokens).k = "CloseParen"
         THEN [some |-> TRUE, node |-> NodeExpression(nodes), rest |-> Tail(tokens)]
         ELSE LET r == parse_expression(tokens)
              IN IF r.some THEN parse_nodes(r.rest, Append(nodes, r.node))
                 ELSE ParseNone

parse_expression(tokens) ==
    IF tokens = <<>> THEN ParseNone
    ELSE LET token == Head(tokens)
         IN CASE token.k = "OpenParen" -> parse_nodes(Tail(tokens), <<>>)
              [] token.k = "Symbol" ->
                    [some |-> TRUE, node |-> NodeSymbol(token.s), rest |-> Tail(tokens)]
              [] token.k = "Variable" ->
                    [some |-> TRUE, node |-> NodeVariable(token.s), rest |-> Tail(tokens)]
              [] OTHER -> ParseNone

parse(inp) == parse_expression(tokenize(inp))

HasDirectVariable(nodes) == \E i \in DOMAIN nodes : nodes[i].k = "Variable"

RECURSIVE needs_link_template(_)
needs_link_template_negation_lost(nodes) ==
    LET has_variable == HasDirectVariable(nodes)
        has_inner_link_template ==
            \E i \in DOMAIN nodes :
                /\ nodes[i].k = "Expression"
                /\ \/ needs_link_template(nodes[i].c)
                   \/ HasDirectVariable(nodes[i].c)
    IN has_variable /\ has_inner_link_template

needs_link_template(nodes) ==
    LET has_variable == HasDirectVariable(nodes)
        has_inner_link_template ==
            \E i \in DOMAIN nodes :
                /\ nodes[i].k = "Expression"
                /\ \/ needs_link_template(nodes[i].c)
                   \/ HasDirectVariable(nodes[i].c)
    IN has_variable /\ ~has_inner_link_template

(* has_inner_link_template as computed by generate_output and by
   generate_output_inner *)
HasInnerLinkTemplate(nodes) ==
    \E i \in DOMAIN nodes :
        /\ nodes[i].k = "Expression"
        /\ \/ needs_link_template(nodes[i].c)
           \/ \E j \in DOMAIN nodes[i].c :
                /\ nodes[i].c[j].k = "Expression"
                /\ \/ needs_link_template(nodes[i].c[j].c)
                   \/ HasDirectVariable(nodes[i].c[j].c)

RECURSIVE Join(_)
Join(parts) ==
    IF parts = <<>> THEN <<>>
    ELSE IF Len(parts) = 1 THEN Head(parts)
    ELSE Head(parts) \o <<" ">> \o Join(Tail(parts))

Header(link_type, count) == <<link_type, " ", "Expression", " ", ToString(count)>>

RECURSIVE generate_output_inner(_)
generate_output_inner_untagged(node) ==
    CASE node.k = "Symbol" -> <<"NODE", " ", "Symbol", " ">> \o node.s
      [] node.k = "Variable" -> <<"VARIABLE", " ">> \o node.s
      [] OTHER ->
            Join(<<Header("LINK", Len(node.c))>>
                    \o [i \in DOMAIN node.c |-> generate_output_inner(node.c[i])])

generate_output_inner_reversed(node) ==
    CASE node.k = "Symbol" -> <<"NODE", " ", "Symbol", " ">> \o node.s
      [] node.k = "Variable" -> <<"VARIABLE", " ">> \o node.s
      [] OTHER ->
            LET nodes == node.c
                count == Len(nodes)
                link_type ==
                    IF needs_link_template(nodes) /\ ~HasInnerLinkTemplate(nodes)
                    THEN "LINK_TEMPLATE"
                    ELSE IF needs_link_template(nodes) \/ HasInnerLinkTemplate(nodes)
                         THEN "LINK_TEMPLATE2"
                         ELSE "LINK"
            IN Join(<<Header(link_type, count)>>
                    \o [i \in DOMAIN nodes |->
                            generate_output_inner(nodes[count + 1 - i])])

generate_output_inner(node) ==
    CASE node.k = "Symbol" -> <<"NODE", " ", "Symbol", " ">> \o node.s
      [] node.k = "Variable" -> <<"VARIABLE", " ">> \o node.s
      [] OTHER ->
            LET nodes == node.c
                count == Len(nodes)
                is_link_template == needs_link_template(nodes)
                has_inner_link_template == HasInnerLinkTemplate(nodes)
                link_type ==
                    IF is_link_template /\ ~has_inner_link_template
                    THEN "LINK_TEMPLATE"
                    ELSE IF is_link_template \/ has_inner_link_template
                         THEN "LINK_TEMPLATE2"
                         ELSE "LINK"
            IN Join(<<Header(link_type, count)>>
                    \o [i \in DOMAIN nodes |-> generate_output_inner(nodes[i])])

generate_output_as_inner(node) == generate_output_inner(node)

generate_output(node) ==
    IF node.k = "Expression"
    THEN LET nodes == node.c
             count == Len(nodes)
             has_inner_link_template == HasInnerLinkTemplate(nodes)
             link_type ==
                 IF needs_link_template(nodes) /\ ~has_inner_link_template
                 THEN "LINK_TEMPLATE"
                 ELSE "LINK_TEMPLATE2"
         IN Join(<<Header(link_type, count)>>
                 \o [i \in DOMAIN nodes |-> generate_output_inner(nodes[i])])
    ELSE generate_output_inner(node)

translate(inp) ==
    LET r == parse(inp)
    IN IF r.some THEN generate_output(r.node) ELSE <<"Parse", " ", "error">>

(***************************************************************************)
(* The translate specification: one input text, one call of translate.     *)
(* The inputs are the texts of the examples, every text of at most MaxLen  *)
(* characters over a small alphabet, and the texts of the expression trees *)
(* of depth at most MaxDepth.                                              *)
(***************************************************************************)
Alphabet == {"(", ")", " ", "A", "$", "\""}

TreeLeaves == {NodeSymbol(<<"A">>), NodeVariable(<<"x">>)}

RECURSIVE Trees(_)
Trees(d) ==
    IF d = 0 THEN TreeLeaves
    ELSE TreeLeaves \cup
         {NodeExpression(cs) : cs \in UNION {[1..w -> Trees(d - 1)] : w \in {0, 1, 2}}}

RECURSIVE Render(_)
Render(node) ==
    CASE node.k = "Symbol" -> node.s
      [] node.k = "Variable" -> <<"$">> \o node.s
      [] OTHER -> <<"(">> \o Join([i \in DOMAIN node.c |-> Render(node.c[i])])
                        \o <<")">>

SimilarityText == <<"(", "S", "i", "m", "i", "l", "a", "r", "i", "t", "y", " ", "$", "1", " ", "$", "2", ")">>
FooBarText == <<"(", "F", "o", "o", " ", "(", "B", "a", "r", " ", "$", "x", ")", ")">>
NoVariableText == <<"(", "A", " ", "(", "B", " ", "C", ")", ")">>

TrailingText == <<"(", "A", ")", " ", "(", "B", ")">>

ExampleTexts == {SimilarityText, FooBarText, NoVariableText, TrailingText}

(* a leaf inside k expressions of one child each *)
RECURSIVE Nest(_, _)
Nest(leaf, k) == IF k = 0 THEN leaf ELSE NodeExpression(<<Nest(leaf, k - 1)>>)

NestedTexts == {Render(Nest(leaf, k)) : leaf \in TreeLeaves, k \in 1..MaxNest}

TranslateInputs ==
    ExampleTexts \cup SeqsUpTo(Alphabet, MaxLen)
        \cup {Render(t) : t \in Trees(MaxDepth)}
        \cup NestedTexts

SpaceIdle ==
    /\ kind = "grounding"
    /\ index = <<>>
    /\ events = <<>>
    /\ call = NoCall
    /\ ret = "none"
    /\ qres = <<>>

InitTranslate ==
    /\ input \in TranslateInputs
    /\ output = <<>>
    /\ tpc = "start"
    /\ SpaceIdle
    /\ MapperIdle
    /\ DasIdle

Translate ==
    /\ tpc = "start"
    /\ output' = translate(input)
    /\ tpc' = "done"
    /\ UNCHANGED <<input, spaceVars, dasVars, mapperVars>>

NextTranslate == Translate

SpecTranslate == InitTranslate /\ [][NextTranslate]_vars

(* the variables below a node, at any depth *)
RECURSIVE HasVariableBelow(_)
HasVariableBelow(node) ==
    \E i \in DOMAIN node.c :
        node.c[i].k = "Variable" \/ HasVariableBelow(node.c[i])

Parsed == parse(input).node

(***************************************************************************)
(* C8: an expression whose variables are all direct children is tagged     *)
(* LINK_TEMPLATE; "(Similarity $1 $2)" gives exactly                       *)
(* "LINK_TEMPLATE Expression 3 NODE Symbol Similarity VARIABLE 1           *)
(* VARIABLE 2".                                                            *)
(***************************************************************************)
VariablesAllDirect(node) ==
    /\ node.k = "Expression"
    /\ HasDirectVariable(node.c)
    /\ \A i \in DOMAIN node.c : ~HasVariableBelow(node.c[i])

C8_DirectVariables ==
    tpc = "done" =>
        /\ (parse(input).some /\ VariablesAllDirect(Parsed)) =>
                output[1] = "LINK_TEMPLATE"
        /\ input = SimilarityText =>
                Str(output) = "LINK_TEMPLATE Expression 3 NODE Symbol Similarity VARIABLE 1 VARIABLE 2"

C8_Witness ==
    /\ tpc = "done"
    /\ input = SimilarityText
    /\ VariablesAllDirect(Parsed)
    /\ Len(output) > 5

(* The encoding of a tree when the tag of every nested expression is chosen
   by its direct children alone and the tag of the outermost one is given *)
RECURSIVE EncodeNested(_)
EncodeNested(node) ==
    CASE node.k = "Symbol" -> <<"NODE", " ", "Symbol", " ">> \o node.s
      [] node.k = "Variable" -> <<"VARIABLE", " ">> \o node.s
      [] OTHER ->
            Join(<<Header(IF HasDirectVariable(node.c)
                          THEN "LINK_TEMPLATE" ELSE "LINK", Len(node.c))>>
                 \o [i \in DOMAIN node.c |-> EncodeNested(node.c[i])])

EncodeOutermost(tag, node) ==
    Join(<<Header(tag, Len(node.c))>>
         \o [i \in DOMAIN node.c |-> EncodeNested(node.c[i])])

RECURSIVE CountVariables(_)
RECURSIVE SumVariables(_, _)
SumVariables(nodes, i) ==
    IF i > Len(nodes) THEN 0
    ELSE CountVariables(nodes[i]) + SumVariables(nodes, i + 1)
CountVariables(node) ==
    IF node.k = "Variable" THEN 1 ELSE SumVariables(node.c, 1)

(***************************************************************************)
(* C9: an expression whose only variable is a direct child of one of its   *)
(* direct sub-expressions is tagged LINK_TEMPLATE2 and that sub-expression *)
(* LINK_TEMPLATE; "(Foo (Bar $x))" gives "LINK_TEMPLATE2 Expression 2 NODE *)
(* Symbol Foo LINK_TEMPLATE Expression 2 NODE Symbol Bar VARIABLE x".      *)
(***************************************************************************)
OnlyVariableNested(node) ==
    /\ node.k = "Expression"
    /\ CountVariables(node) = 1
    /\ \E i \in DOMAIN node.c :
         node.c[i].k = "Expression" /\ HasDirectVariable(node.c[i].c)

C9_NestedVariable ==
    tpc = "done" =>
        /\ (parse(input).some /\ OnlyVariableNested(Parsed)) =>
                /\ output[1] = "LINK_TEMPLATE2"
                /\ Str(output) = Str(EncodeOutermost("LINK_TEMPLATE2", Parsed))
        /\ input = FooBarText =>
                Str(output) = "LINK_TEMPLATE2 Expression 2 NODE Symbol Foo LINK_TEMPLATE Expression 2 NODE Symbol Bar VARIABLE x"

C9_Witness ==
    /\ tpc = "done"
    /\ input = FooBarText
    /\ OnlyVariableNested(Parsed)
    /\ output[1] = "LINK_TEMPLATE2"

(***************************************************************************)
(* C10 as stated: an input with no variable anywhere has every expression, *)
(* the outermost one included, tagged LINK; "(A (B C))" gives "LINK        *)
(* Expression 2 NODE Symbol A LINK Expression 2 NODE Symbol B NODE Symbol  *)
(* C".                                                                     *)
(***************************************************************************)
NoVariableAnywhere(node) == node.k = "Expression" /\ ~HasVariableBelow(node)

Keywords == {"NODE", "VARIABLE", "LINK", "LINK_TEMPLATE", "LINK_TEMPLATE2"}

(* the last piece of the name that starts at piece j *)
NameEnd(out, j) ==
    CHOOSE e \in (j - 1)..Len(out) :
        /\ e = Len(out) \/ (e + 2 <= Len(out) /\ out[e + 1] = " " /\ out[e + 2] \in Keywords)
        /\ \A f \in (j - 1)..(e - 1) :
             ~(f + 2 <= Len(out) /\ out[f + 1] = " " /\ out[f + 2] \in Keywords)

ArityOf(piece) == CHOOSE k \in 0..9 : ToString(k) = piece

RECURSIVE ElemEnd(_, _)
RECURSIVE ChildrenEnd(_, _, _)
(* the last piece of the n elements that follow piece pos *)
ChildrenEnd(out, pos, n) ==
    IF n = 0 THEN pos ELSE ChildrenEnd(out, ElemEnd(out, pos + 2), n - 1)

(* the last piece of the element whose keyword is piece i *)
ElemEnd(out, i) ==
    CASE out[i] = "NODE" -> NameEnd(out, i + 4)
      [] out[i] = "VARIABLE" -> NameEnd(out, i + 2)
      [] OTHER -> ChildrenEnd(out, i + 4, ArityOf(out[i + 4]))

Enclosed(out, i) == {out[j] : j \in (i + 1)..ElemEnd(out, i)}

(***************************************************************************)
(* C11: in translate's output no expression tagged LINK encloses a         *)
(* VARIABLE, a LINK_TEMPLATE or a LINK_TEMPLATE2 token, whatever the       *)
(* nesting depth of the input.                                             *)
(***************************************************************************)
C11_LinkHasNoVariable ==
    (tpc = "done" /\ parse(input).some) =>
        \A i \in DOMAIN output :
            output[i] = "LINK" =>
                Enclosed(output, i) \cap {"VARIABLE", "LINK_TEMPLATE", "LINK_TEMPLATE2"} = {}

(***************************************************************************)
(* C28: an Expression at any nesting depth of the input is tagged          *)
(* LINK_TEMPLATE iff it has a direct Variable child and no variable occurs *)
(* at any depth inside its Expression children, and LINK_TEMPLATE2 iff a   *)
(* variable occurs at any depth inside one of its Expression children.     *)
(***************************************************************************)
VariableInsideChild(node) ==
    \E i \in DOMAIN node.c :
        node.c[i].k = "Expression" /\ HasVariableBelow(node.c[i])

TagByVariables(node) ==
    IF VariableInsideChild(node) THEN "LINK_TEMPLATE2"
    ELSE IF HasDirectVariable(node.c) THEN "LINK_TEMPLATE"
    ELSE "LINK"

RECURSIVE EncodeByVariables(_)
EncodeByVariables(node) ==
    CASE node.k = "Symbol" -> <<"NODE", " ", "Symbol", " ">> \o node.s
      [] node.k = "Variable" -> <<"VARIABLE", " ">> \o node.s
      [] OTHER ->
            Join(<<Header(TagByVariables(node), Len(node.c))>>
                 \o [i \in DOMAIN node.c |-> EncodeByVariables(node.c[i])])

C28_TagByVariables ==
    (tpc = "done" /\ parse(input).some) =>
        Str(output) = Str(EncodeByVariables(Parsed))

(***************************************************************************)
(* C29: for a well-formed input the output is the depth-first,             *)
(* left-to-right encoding of the parsed tree: each header "<TAG>           *)
(* Expression N" is followed by exactly N child encodings in the order of  *)
(* the children, "NODE Symbol <text>" for a symbol and "VARIABLE <name>"   *)
(* without the "$" for a variable, so that reading the output back gives   *)
(* the tree: the parsed one, and for the text of a tree that tree.         *)
(***************************************************************************)
LinkTags == {"LINK", "LINK_TEMPLATE", "LINK_TEMPLATE2"}

RECURSIVE Decode(_, _)
RECURSIVE DecodeChildren(_, _, _)
(* the n elements that follow piece pos, read back *)
DecodeChildren(out, pos, n) ==
    IF n = 0 THEN <<>>
    ELSE <<Decode(out, pos + 2)>>
            \o DecodeChildren(out, ElemEnd(out, pos + 2), n - 1)

(* the element whose keyword is piece i, read back *)
Decode(out, i) ==
    CASE out[i] = "NODE" ->
            NodeSymbol(SubSeq(out, i + 4, NameEnd(out, i + 4)))
      [] out[i] = "VARIABLE" ->
            NodeVariable(SubSeq(out, i + 2, NameEnd(out, i + 2)))
      [] out[i] \in LinkTags ->
            NodeExpression(DecodeChildren(out, i + 4, ArityOf(out[i + 4])))
      [] OTHER -> NoNode

C29_DepthFirstEncoding ==
    (tpc = "done" /\ parse(input).some) =>
        /\ ElemEnd(output, 1) = Len(output)
        /\ Decode(output, 1) = Parsed
        /\ \A t \in Trees(MaxDepth) : input = Render(t) => Decode(output, 1) = t
        /\ input = SimilarityText =>
              Decode(output, 1) =
                  NodeExpression(<<NodeSymbol(<<"S", "i", "m", "i", "l", "a", "r", "i", "t", "y">>),
                                   NodeVariable(<<"1">>), NodeVariable(<<"2">>)>>)

C29_Witness ==
    /\ tpc = "done"
    /\ parse(input).some
    /\ Parsed.k = "Expression"
    /\ Len(Parsed.c) = 2
    /\ Parsed.c[1].k = "Expression"
    /\ Len(Parsed.c[1].c) = 2
    /\ Parsed.c[1].c[1].k = "Variable"
    /\ Parsed.c[1].c[2].k = "Symbol"
    /\ Parsed.c[2].k = "Symbol"
    /\ Decode(output, 1) = Parsed

(***************************************************************************)
(* C12: translate returns exactly "Parse error" when the input holds no    *)
(* token, starts with a closing parenthesis, or opens an expression that   *)
(* is never closed.                                                        *)
(***************************************************************************)
(* the parentheses open after the first k tokens *)
RECURSIVE OpenAfter(_, _)
OpenAfter(tokens, k) ==
    IF k = 0 THEN 0
    ELSE OpenAfter(tokens, k - 1)
            + (IF tokens[k].k = "OpenParen" THEN 1
               ELSE IF tokens[k].k = "CloseParen" THEN -1 ELSE 0)

NoToken(tokens) == tokens = <<>>
ClosingAtStart(tokens) == tokens # <<>> /\ tokens[1].k = "CloseParen"
MissingClosing(tokens) ==
    /\ tokens # <<>>
    /\ tokens[1].k = "OpenParen"
    /\ \A k \in 1..Len(tokens) : OpenAfter(tokens, k) > 0

FirstExpressionEnds(tokens, k) ==
    /\ k \in 1..Len(tokens)
    /\ tokens[1].k # "CloseParen"
    /\ OpenAfter(tokens, k) = 0
    /\ \A j \in 1..(k - 1) : OpenAfter(tokens, j) > 0

TokensRemain(tokens) ==
    \E k \in 1..(Len(tokens) - 1) : FirstExpressionEnds(tokens, k)

C13_TrailingTokens ==
    tpc = "done" =>
        (TokensRemain(tokenize(input)) => Str(output) = "Parse error")

(***************************************************************************)
(* The DAS node (rust-das lib.rs). status and results are shared, each     *)
(* behind its own lock, by the adapter and by the gRPC server thread.      *)
(* handling holds the status that an execute_message in progress is about  *)
(* to set: it has extended results and still holds the results lock.       *)
(***************************************************************************)
DASNode_new == [status |-> "Ready", results |-> <<>>, handling |-> <<>>]

OwnEndpoint == "0.0.0.0:8080"

MessageData(command, args) == [command |-> command, args |-> args]

process_message(msg) ==
    CASE msg.command = "node_joined_network" -> [status |-> "Processing", results |-> <<>>]
      [] msg.command = "query_answer_tokens_flow" -> [status |-> "Processing", results |-> msg.args]
      [] msg.command = "query_answer_flow" -> [status |-> "Processing", results |-> <<>>]
      [] msg.command = "pattern_matching_query" -> [status |-> "Processing", results |-> <<>>]
      [] msg.command = "query_answers_finished" -> [status |-> "Ready", results |-> <<>>]
      [] OTHER -> [status |-> "Unknown", results |-> <<>>]

(* execute_message up to r.extend(results): the results lock is taken *)
execute_message_extend(n, msg) ==
    LET pm == process_message(msg)
    IN [n EXCEPT !.results = @ \o pm.results, !.handling = <<pm.status>>]

(* execute_message from s.change_status(status) to its end: both locks go *)
execute_message_status(n) ==
    [n EXCEPT !.status = n.handling[1], !.handling = <<>>]

(* get_results: try_lock, then mem::take; nothing when the lock is held *)
get_results(n) ==
    IF n.handling # <<>>
    THEN [results |-> <<>>, node |-> n]
    ELSE [results |-> n.results, node |-> [n EXCEPT !.results = <<>>]]

get_status(n) == n.status

is_complete(n) == n.status # "Processing"

(* DASNode::send: the request reaches the remote or the connection fails *)
send(sent, peer, request) ==
    IF peer.reachable
    THEN [ok |-> TRUE, bus |-> Append(sent, request)]
    ELSE [ok |-> FALSE, bus |-> sent]

DASNode_query_context_first(n, sent, peer, pattern, context, update_attention_broker) ==
    LET args == <<context, OwnEndpoint, update_attention_broker>> \o pattern
        request == [command |-> "pattern_matching_query", args |-> args,
                    sender |-> OwnEndpoint, is_broadcast |-> FALSE,
                    visited_recipients |-> <<>>]
        r == send(sent, peer, request)
    IN [node |-> [n EXCEPT !.status = "Processing"], bus |-> r.bus, ok |-> r.ok]

DASNode_query(n, sent, peer, pattern, context, update_attention_broker) ==
    LET args == <<OwnEndpoint, context, update_attention_broker>> \o pattern
        request == [command |-> "pattern_matching_query", args |-> args,
                    sender |-> OwnEndpoint, is_broadcast |-> FALSE,
                    visited_recipients |-> <<>>]
        r == send(sent, peer, request)
    IN [node |-> [n EXCEPT !.status = "Processing"], bus |-> r.bus, ok |-> r.ok]

(***************************************************************************)
(* query_with_das (stdlib das.rs). A string that the code only ever splits *)
(* at whitespace is kept as the sequence of its words.                     *)
(***************************************************************************)
(* atom.to_string().replace("(", "").replace(")", ""), split at whitespace *)
RECURSIVE Words(_)
RECURSIVE WordsOf(_, _)
WordsOf(children, i) ==
    IF i > Len(children) THEN <<>>
    ELSE Words(children[i]) \o WordsOf(children, i + 1)
Words(atom) ==
    CASE atom.t = "sym" -> <<atom.n>>
      [] atom.t = "var" -> <<"$" \o atom.n>>
      [] atom.t = "expr" -> WordsOf(atom.c, 1)
      [] OTHER -> <<>>

(* str::split(":") on the count:skip words of the queries below *)
SplitColon(word) ==
    CASE word = "1:1" -> <<"1", "1">>
      [] word = "2:x" -> <<"2", "x">>
      [] OTHER -> <<word>>

(* str::parse of an unsigned number *)
ParseNumber(word) ==
    IF \E k \in 0..9 : ToString(k) = word
    THEN [ok |-> TRUE, v |-> CHOOSE k \in 0..9 : ToString(k) = word]
    ELSE [ok |-> FALSE, v |-> 0]

(* count and skip of a (count) or (count:skip) child; unwrap panics *)
count_skip(child) ==
    LET words == Words(child)
        splitted == IF Len(words) = 1 THEN SplitColon(words[1]) ELSE <<"">>
        count == ParseNumber(splitted[1])
        skip == IF Len(splitted) = 2 THEN ParseNumber(splitted[2])
                ELSE [ok |-> TRUE, v |-> 0]
    IN [ok |-> count.ok /\ skip.ok, count |-> count.v, skip |-> skip.v]

importance_of(child) ==
    LET words == Words(child)
    IN IF Len(words) = 1 THEN ParseNumber(words[1]) ELSE [ok |-> FALSE, v |-> 0]

Params(outcome, count, query_strip) ==
    [outcome |-> outcome, count |-> count, query_strip |-> query_strip]

(* the parameters of the query: ((count) (importance) (query)) *)
query_params(q) ==
    IF q.t # "expr" THEN Params("return", 0, <<>>)
    ELSE LET children == q.c
             exp_len == Len(children)
         IN IF exp_len = 0 THEN Params("panic", 0, <<>>)
            ELSE IF children[1].t = "sym" THEN Params("ok", 0, Words(q))
            ELSE IF children[1].t # "expr" THEN Params("return", 0, <<>>)
            ELSE CASE exp_len = 1 -> Params("ok", 0, Words(children[1]))
                   [] exp_len = 2 ->
                        LET cs == count_skip(children[1])
                        IN IF cs.ok THEN Params("ok", cs.count, Words(children[2]))
                           ELSE Params("panic", 0, <<>>)
                   [] exp_len = 3 ->
                        LET cs == count_skip(children[1])
                        IN IF cs.ok /\ importance_of(children[2]).ok
                           THEN Params("ok", cs.count, Words(children[3]))
                           ELSE Params("panic", 0, <<>>)
                   [] OTHER -> Params("ok", 0, Words(q))

(* the names that follow the word VARIABLE, each with the value "" *)
extract_variables(splitted) ==
    LET at == {idx \in DOMAIN splitted : splitted[idx] = "VARIABLE"}
    IN IF \E idx \in at : idx + 1 > Len(splitted)
       THEN [ok |-> FALSE, variables |-> NoVariables]
       ELSE [ok |-> TRUE,
             variables |-> [name \in {splitted[idx + 1] : idx \in at} |-> ""]]

query_with_das_begin(space_name, q) ==
    LET p == query_params(q)
        v == extract_variables(p.query_strip)
    IN CASE p.outcome = "return" -> [QwIdle EXCEPT !.pc = "done"]
         [] p.outcome = "panic" \/ ~v.ok -> [QwIdle EXCEPT !.pc = "panicked"]
         [] OTHER -> [QwIdle EXCEPT !.pc = "issue",
                                    !.count = p.count,
                                    !.pattern = p.query_strip,
                                    !.variables = v.variables]

(* the send guarded by is_complete, its result unwrapped *)
query_with_das_issue_error_dropped(n, sent, peer, l, context) ==
    IF is_complete(n)
    THEN LET r == DASNode_query(n, sent, peer, l.pattern, context, "false")
         IN [node |-> r.node, bus |-> r.bus,
             qw |-> [l EXCEPT !.pc = "take",
                              !.sent = IF r.ok THEN @ + 1 ELSE @]]
    ELSE [node |-> n, bus |-> sent, qw |-> [l EXCEPT !.pc = "take"]]

query_with_das_issue(n, sent, peer, l, context) ==
    IF is_complete(n)
    THEN LET r == DASNode_query(n, sent, peer, l.pattern, context, "false")
         IN [node |-> r.node, bus |-> r.bus,
             qw |-> IF r.ok THEN [l EXCEPT !.pc = "take", !.sent = @ + 1]
                    ELSE [l EXCEPT !.pc = "panicked"]]
    ELSE [node |-> n, bus |-> sent, qw |-> [l EXCEPT !.pc = "take"]]

(* the value of each variable found among the words of one answer *)
RECURSIVE update_variables(_, _, _)
update_variables_off_by_one(variables, splitted, idx) ==
    IF idx > Len(splitted) THEN [ok |-> TRUE, variables |-> variables]
    ELSE IF splitted[idx] \in DOMAIN variables
         THEN update_variables(
                  [variables EXCEPT ![splitted[idx]] = splitted[idx]],
                  splitted, idx + 1)
         ELSE update_variables(variables, splitted, idx + 1)

update_variables(variables, splitted, idx) ==
    IF idx > Len(splitted) THEN [ok |-> TRUE, variables |-> variables]
    ELSE IF splitted[idx] \in DOMAIN variables
         THEN IF idx + 1 > Len(splitted)
              THEN [ok |-> FALSE, variables |-> variables]
              ELSE update_variables(
                      [variables EXCEPT ![splitted[idx]] = splitted[idx + 1]],
                      splitted, idx + 1)
         ELSE update_variables(variables, splitted, idx + 1)

(* one binding of a symbol for every key of the variables map *)
RECURSIVE bindings_of(_, _)
bindings_of(variables, keys) ==
    IF keys = {} THEN {}
    ELSE LET key == CHOOSE k \in keys : TRUE
         IN Head(add_var_binding(bindings_of(variables, keys \ {key}),
                                 VarKey(Var(key)), Sym(variables[key])))

(* the for loop over the results taken from the node *)
RECURSIVE decode_results(_, _, _)
decode_results_no_break(l, results, i) ==
    IF i > Len(results) THEN l
    ELSE LET u == update_variables(l.variables, results[i], 1)
         IN IF ~u.ok THEN [l EXCEPT !.pc = "panicked"]
            ELSE decode_results(
                    [l EXCEPT !.variables = u.variables,
                              !.bindings_set =
                                  Append(@, bindings_of(u.variables, DOMAIN u.variables)),
                              !.answers = Append(@, results[i])],
                    results, i + 1)

decode_results(l, results, i) ==
    IF i > Len(results) THEN l
    ELSE LET u == update_variables(l.variables, results[i], 1)
         IN IF ~u.ok THEN [l EXCEPT !.pc = "panicked"]
            ELSE LET pushed ==
                        [l EXCEPT !.variables = u.variables,
                                  !.bindings_set =
                                      Append(@, bindings_of(u.variables, DOMAIN u.variables)),
                                  !.answers = Append(@, results[i])]
                 IN IF l.count > 0 /\ Len(pushed.bindings_set) >= l.count
                    THEN pushed
                    ELSE decode_results(pushed, results, i + 1)

(* one round of the loop up to the for loop's end: results taken, decoded *)
query_with_das_take(n, l) ==
    LET g == get_results(n)
        d == decode_results([l EXCEPT !.polled = TRUE], g.results, 1)
    IN [node |-> g.node,
        qw |-> IF d.pc = "panicked" THEN d ELSE [d EXCEPT !.pc = "check"]]

query_with_das_check_gives_up(n, l) ==
    IF get_status(n) # "Processing" \/ (l.count > 0 /\ Len(l.bindings_set) >= l.count)
    THEN [l EXCEPT !.pc = "done"]
    ELSE [l EXCEPT !.pc = "take"]

(* the end of the round: the status read and waiting decided *)
query_with_das_check(n, l) ==
    IF get_status(n) = "Ready" \/ (l.count > 0 /\ Len(l.bindings_set) >= l.count)
    THEN [l EXCEPT !.pc = "done"]
    ELSE [l EXCEPT !.pc = "take"]

DistributedAtomSpace_query_local_first(self, q) ==
    IF self.index # <<>>
    THEN [QwIdle EXCEPT !.pc = "done", !.bindings_set = BindingsSet_single]
    ELSE query_with_das_begin(self.name, q)

(* DistributedAtomSpace::query: self.name and self.node handed over *)
DistributedAtomSpace_query_begin(self, q) ==
    query_with_das_begin(self.name, q)

SpaceMut_replicated(self, c) ==
    LET r == CASE c.op = "add" -> DistributedAtomSpace_add(self.index, self.events, c.a)
               [] c.op = "remove" -> DistributedAtomSpace_remove(self.index, self.events, c.a)
               [] OTHER -> DistributedAtomSpace_replace(self.index, self.events, c.a, c.b)
        sent == DASNode_query(self.node, self.bus, [reachable |-> TRUE],
                              <<c.op>> \o Words(c.a), self.name, "false")
    IN [index |-> r.index, events |-> r.events, ret |-> r.ret,
        node |-> sent.node, bus |-> sent.bus]

(* impl SpaceMut for DistributedAtomSpace: self after the call, and what
   the call returned *)
SpaceMut(self, c) ==
    LET r == CASE c.op = "add" -> DistributedAtomSpace_add(self.index, self.events, c.a)
               [] c.op = "remove" -> DistributedAtomSpace_remove(self.index, self.events, c.a)
               [] OTHER -> DistributedAtomSpace_replace(self.index, self.events, c.a, c.b)
    IN [index |-> r.index, events |-> r.events, ret |-> r.ret,
        node |-> self.node, bus |-> self.bus]

atom_count(self) == Len(self.index)

visit(self) == self.index

(***************************************************************************)
(* The poll loop of the query binary (rust-das main.rs) over a proxy that  *)
(* the remote fills: finished() is a flag, pop() takes the oldest answer.  *)
(***************************************************************************)
MAX_QUERY_ANSWERS == 100

(* service_bus.issue_bus_command(&mut proxy)? *)
issue_bus_command(p, peer) ==
    IF peer.reachable THEN [p EXCEPT !.pc = "while"] ELSE [p EXCEPT !.pc = "error"]

(* while !proxy.finished() *)
main_while(p) ==
    IF p.finished THEN [p EXCEPT !.pc = "done"] ELSE [p EXCEPT !.pc = "pop"]

(* the body of the loop: pop, count, break at the cap, or sleep *)
main_pop(p) ==
    IF p.queue # <<>>
    THEN LET count == p.count + 1
         IN [p EXCEPT !.queue = Tail(@), !.count = count,
                      !.pc = IF count = p.max_query_answers THEN "done" ELSE "while"]
    ELSE [p EXCEPT !.pc = "while"]

(***************************************************************************)
(* NewDasOp::execute (stdlib das.rs). The text of an endpoint atom is a    *)
(* sequence of characters.                                                 *)
(***************************************************************************)
U16Max == 65535

Chars(name) ==
    CASE name = "h:80" -> <<"h", ":", "8", "0">>
      [] name = "h:65535" -> <<"h", ":", "6", "5", "5", "3", "5">>
      [] name = "h:65536" -> <<"h", ":", "6", "5", "5", "3", "6">>
      [] name = "h:p" -> <<"h", ":", "p">>
      [] name = "h:" -> <<"h", ":">>
      [] name = "h:8:0" -> <<"h", ":", "8", ":", "0">>
      [] name = "notanendpoint" ->
            <<"n", "o", "t", "a", "n", "e", "n", "d", "p", "o", "i", "n", "t">>
      [] OTHER -> <<name>>

(* atom.to_string().replace("(", "").replace(")", "") *)
RECURSIVE EndpointText(_)
RECURSIVE EndpointTexts(_, _)
EndpointTexts(children, i) ==
    IF i > Len(children) THEN <<>>
    ELSE EndpointText(children[i])
            \o (IF i < Len(children) THEN <<" ">> ELSE <<>>)
            \o EndpointTexts(children, i + 1)
EndpointText(atom) ==
    CASE atom.t = "sym" -> Chars(atom.n)
      [] atom.t = "var" -> <<"$">> \o Chars(atom.n)
      [] OTHER -> EndpointTexts(atom.c, 1)

IsDigit(ch) == \E k \in 0..9 : ToString(k) = ch

RECURSIVE DecimalValue(_)
DecimalValue(digits) ==
    IF digits = <<>> THEN 0
    ELSE 10 * DecimalValue(SubSeq(digits, 1, Len(digits) - 1))
            + (CHOOSE k \in 0..9 : ToString(k) = digits[Len(digits)])

(* port_str.parse::<u16>() *)
parse_u16(text) ==
    IF /\ text # <<>>
       /\ \A i \in DOMAIN text : IsDigit(text[i])
       /\ DecimalValue(text) <= U16Max
    THEN [ok |-> TRUE, v |-> DecimalValue(text)]
    ELSE [ok |-> FALSE, v |-> 0]

extract_host_and_port(atom) ==
    LET endpoint == EndpointText(atom)
        colons == {i \in DOMAIN endpoint : endpoint[i] = ":"}
    IN IF colons # {}
       THEN LET at == CHOOSE i \in colons : \A j \in colons : i <= j
                port == parse_u16(SubSeq(endpoint, at + 1, Len(endpoint)))
            IN IF port.ok THEN [ok |-> TRUE, port |-> port.v]
               ELSE [ok |-> FALSE, port |-> 0]
       ELSE [ok |-> FALSE, port |-> 0]

ExecError == [ret |-> "Err", nodes |-> 0, atoms |-> <<>>]

(* Atom::gnd(DynSpace::new(DistributedAtomSpace::new(das_node, Some("context")))) *)
SpaceAtom == [t |-> "gnd", n |-> "context", id |-> 0, c |-> <<>>]

(* unit_result(): Ok(vec![UNIT_ATOM]), the empty expression *)
UNIT_ATOM == Expr(<<>>)
unit_result == [ret |-> "Ok", atoms |-> <<UNIT_ATOM>>]

NewDasOp_execute_node_before_client(args) ==
    IF Len(args) = 2
    THEN LET server == extract_host_and_port(args[1])
             client == extract_host_and_port(args[2])
         IN IF ~server.ok THEN ExecError
            ELSE IF ~client.ok THEN [ret |-> "Err", nodes |-> 1, atoms |-> <<>>]
            ELSE [ret |-> "Ok", nodes |-> 1, atoms |-> <<SpaceAtom>>]
    ELSE ExecError

(* nodes: the DAS nodes made by new_das_node; atoms: the Vec<Atom> of Ok *)
NewDasOp_execute(args) ==
    IF Len(args) = 2
    THEN LET server == extract_host_and_port(args[1])
             client == extract_host_and_port(args[2])
         IN IF ~server.ok THEN ExecError
            ELSE IF ~client.ok THEN ExecError
            ELSE [ret |-> "Ok", nodes |-> 1, atoms |-> <<SpaceAtom>>]
    ELSE ExecError

(***************************************************************************)
(* The distributed specification: one of                                   *)
(*   - a DistributedAtomSpace whose query is called once, while the remote *)
(*     delivers bus messages to the node's server thread and the local     *)
(*     index is mutated;                                                   *)
(*   - the query binary polling its proxy;                                 *)
(*   - one call of NewDasOp::execute.                                      *)
(***************************************************************************)
Pattern ==
    <<Sym("LINK_TEMPLATE"), Sym("Expression"), Sym("3"), Sym("NODE"),
      Sym("Symbol"), Sym("Similarity"), Sym("VARIABLE"), Sym("x"),
      Sym("VARIABLE"), Sym("y")>>

Capped(countSkip) == Expr(<<Expr(<<Sym(countSkip)>>), Expr(Pattern)>>)

DasQueries ==
    {Expr(Pattern), Expr(<<Expr(Pattern)>>),
     Capped("0"), Capped("1"), Capped("2"), Capped("1:1"), Capped("2:x"),
     Capped("n"),
     Expr(<<Expr(<<Sym("1")>>), Expr(<<Sym("5")>>), Expr(Pattern)>>),
     Expr(Append(Pattern, Sym("VARIABLE"))),
     Expr(<<Var("v"), Sym("x")>>), Expr(<<>>), Sym("Similarity")}

AnswerBoth == <<"x", "alpha", "y", "beta">>
AnswerOnlyX == <<"x", "gamma">>
AnswerSwapped == <<"y", "delta", "x", "alpha">>
AnswerCut == <<"x", "alpha", "y">>

Answers == {AnswerBoth, AnswerOnlyX, AnswerSwapped, AnswerCut}

Messages ==
    {MessageData("query_answer_tokens_flow", <<AnswerBoth>>),
     MessageData("query_answer_tokens_flow", <<AnswerOnlyX>>),
     MessageData("query_answer_tokens_flow", <<AnswerCut>>),
     MessageData("query_answer_tokens_flow", <<AnswerBoth, AnswerSwapped, AnswerOnlyX>>),
     MessageData("query_answers_finished", <<>>),
     MessageData("node_joined_network", <<>>),
     MessageData("query_answer_flow", <<>>),
     MessageData("pattern_matching_query", <<>>),
     MessageData("shutdown", <<AnswerBoth>>)}

LocalAtoms == {Expr(<<Sym("Similarity"), Sym("x"), Sym("alpha")>>)}

Endpoints ==
    {Sym("h:80"), Sym("h:65535"), Sym("h:65536"), Sym("h:p"), Sym("h:"),
     Sym("h:8:0"), Sym("notanendpoint"), Expr(<<Sym("h:80")>>),
     Expr(<<Sym("h"), Sym("80")>>), Sym("A")}

Caps == {0, 1, 2, MAX_QUERY_ANSWERS}

InitDas ==
    /\ kind = "distributed"
    /\ index = <<>>
    /\ events = <<>>
    /\ call = NoCall
    /\ ret = "none"
    /\ qres = <<>>
    /\ TranslateIdle
    /\ MapperIdle
    /\ das_node = DASNode_new
    /\ bus = <<>>
    /\ remote \in [reachable : BOOLEAN, delivered : {0}, in_flight : {0},
                  answered : {0}, finished : {FALSE}]
    /\ qw2 = QwIdle
    /\ \/ /\ qw = [QwIdle EXCEPT !.pc = "start"]
          /\ px = PxIdle
          /\ op = OpIdle
       \/ /\ qw = QwIdle
          /\ px \in {[PxIdle EXCEPT !.pc = "issue", !.max_query_answers = c] : c \in Caps}
          /\ op = OpIdle
       \/ /\ qw = QwIdle
          /\ px = PxIdle
          /\ op = [OpIdle EXCEPT !.pc = "start"]

(* the DistributedAtomSpace: index, common (its observers), node, name *)
Self ==
    [index |-> index, events |-> events, node |-> das_node, bus |-> bus,
     name |-> "context"]

(* DistributedAtomSpace::query called *)
QBegin(q) ==
    /\ qw.pc = "start"
    /\ qw' = DistributedAtomSpace_query_begin(Self, q)
    /\ UNCHANGED <<spaceVars, translateVars, mapperVars, das_node, bus, remote, px, op, qw2>>

(* the remote after the node sent what takes the bus from sent to now: a  *)
(* pattern_matching_query that arrived is in flight until its            *)
(* query_answers_finished is received                                    *)
remote_after(peer, sent, now) ==
    [peer EXCEPT !.in_flight = @ + Len(now) - Len(sent)]

(* the remote after it delivered msg: query_answers_finished ends what is *)
(* in flight; answered counts the answers delivered before the first      *)
(* query_answers_finished                                                 *)
remote_delivered(peer, msg) ==
    [peer EXCEPT
        !.delivered = @ + 1,
        !.in_flight = IF msg.command = "query_answers_finished" THEN 0 ELSE @,
        !.finished = @ \/ msg.command = "query_answers_finished",
        !.answered = IF ~peer.finished
                        /\ msg.command = "query_answer_tokens_flow"
                     THEN @ + Len(msg.args) ELSE @]

(* das_node.lock().await: the caller that is between the get_results and *)
(* the get_status of one round holds the mutex of the node               *)
NodeLockFree(other) == other.pc # "check"

QIssue ==
    /\ qw.pc = "issue"
    /\ NodeLockFree(qw2)
    /\ LET r == query_with_das_issue(das_node, bus, remote, qw, Self.name)
       IN /\ das_node' = r.node
          /\ bus' = r.bus
          /\ qw' = r.qw
          /\ remote' = remote_after(remote, bus, r.bus)
    /\ UNCHANGED <<spaceVars, translateVars, mapperVars, px, op, qw2>>

QTake ==
    /\ qw.pc = "take"
    /\ NodeLockFree(qw2)
    /\ LET r == query_with_das_take(das_node, qw)
       IN /\ das_node' = r.node
          /\ qw' = r.qw
    /\ UNCHANGED <<spaceVars, translateVars, mapperVars, bus, remote, px, op, qw2>>

QCheck ==
    /\ qw.pc = "check"
    /\ qw' = query_with_das_check(das_node, qw)
    /\ UNCHANGED <<spaceVars, translateVars, mapperVars, das_node, bus, remote, px, op, qw2>>

(* the server thread receives a message: execute_message, first half *)
Receive(msg) ==
    /\ \/ qw.pc \in {"issue", "take", "check"}
       \/ qw2.pc \in {"issue", "take", "check"}
    /\ remote.delivered < MaxMsgs
    /\ das_node.handling = <<>>
    /\ das_node' = execute_message_extend(das_node, msg)
    /\ remote' = remote_delivered(remote, msg)
    /\ UNCHANGED <<spaceVars, translateVars, mapperVars, bus, qw, px, op, qw2>>

(* execute_message, second half *)
SetStatus ==
    /\ das_node.handling # <<>>
    /\ das_node' = execute_message_status(das_node)
    /\ UNCHANGED <<spaceVars, translateVars, mapperVars, bus, remote, qw, px, op, qw2>>

LocalCall(c) ==
    /\ qw.pc # "idle"
    /\ Len(events) < MaxLocal
    /\ LET r == SpaceMut(Self, c)
       IN /\ index' = r.index
          /\ events' = r.events
          /\ ret' = r.ret
          /\ das_node' = r.node
          /\ bus' = r.bus
    /\ call' = c
    /\ UNCHANGED <<kind, qres, translateVars, mapperVars, remote, qw, px, op, qw2>>

LocalAdd(atom) == LocalCall([op |-> "add", a |-> atom, b |-> NoAtom])
LocalRemove(atom) == LocalCall([op |-> "remove", a |-> atom, b |-> NoAtom])
LocalReplace(from, to) == LocalCall([op |-> "replace", a |-> from, b |-> to])

MIssue ==
    /\ px.pc = "issue"
    /\ px' = issue_bus_command(px, remote)
    /\ UNCHANGED <<spaceVars, translateVars, mapperVars, das_node, bus, remote, qw, op, qw2>>

MWhile ==
    /\ px.pc = "while"
    /\ px' = main_while(px)
    /\ UNCHANGED <<spaceVars, translateVars, mapperVars, das_node, bus, remote, qw, op, qw2>>

MPop ==
    /\ px.pc = "pop"
    /\ px' = main_pop(px)
    /\ UNCHANGED <<spaceVars, translateVars, mapperVars, das_node, bus, remote, qw, op, qw2>>

(* the remote hands an answer to the proxy *)
ProxyAnswer(answer) ==
    /\ px.pc \in {"while", "pop"}
    /\ ~px.finished
    /\ px.pushed < MaxMsgs
    /\ px' = [px EXCEPT !.queue = Append(@, answer), !.pushed = @ + 1]
    /\ UNCHANGED <<spaceVars, translateVars, mapperVars, das_node, bus, remote, qw, op, qw2>>

ProxyFinished ==
    /\ px.pc \in {"while", "pop"}
    /\ ~px.finished
    /\ px' = [px EXCEPT !.finished = TRUE]
    /\ UNCHANGED <<spaceVars, translateVars, mapperVars, das_node, bus, remote, qw, op, qw2>>

Execute(args) ==
    /\ op.pc = "start"
    /\ LET r == NewDasOp_execute(args)
       IN op' = [pc |-> "done", args |-> args, ret |-> r.ret, nodes |-> r.nodes,
                 atoms |-> r.atoms]
    /\ UNCHANGED <<spaceVars, translateVars, mapperVars, das_node, bus, remote, qw, px, qw2>>

NextDas ==
    \/ \E q \in DasQueries : QBegin(q)
    \/ QIssue
    \/ QTake
    \/ QCheck
    \/ \E msg \in Messages : Receive(msg)
    \/ SetStatus
    \/ \E atom \in LocalAtoms : LocalAdd(atom)
    \/ \E atom \in LocalAtoms : LocalRemove(atom)
    \/ \E from \in LocalAtoms, to \in LocalAtoms : LocalReplace(from, to)
    \/ MIssue
    \/ MWhile
    \/ MPop
    \/ \E answer \in Answers : ProxyAnswer(answer)
    \/ ProxyFinished
    \/ \E args \in SeqsUpTo(Endpoints, 3) : Execute(args)

SpecDas == InitDas /\ [][NextDas]_vars

(* The caller's thread and the server thread keep running: a poll round   *)
(* that can be taken is taken, a message being handled is handled to its  *)
(* end. What the remote delivers, and when, is up to the remote. Under    *)
(* NextDas there is no second caller, so the take step is enabled exactly *)
(* when the poller is at take and always leaves it: its weak fairness is  *)
(* that the poller is again and again not at take.                        *)
SpecDasFair ==
    /\ InitDas /\ [][NextDas]_vars
    /\ WF_vars(QIssue)
    /\ []<>(qw.pc # "take")
    /\ WF_vars(QCheck)
    /\ WF_vars(SetStatus)

(***************************************************************************)
(* The concurrent callers specification: two callers of the query of one   *)
(* DistributedAtomSpace, each running query_with_das on the shared node,   *)
(* while the server thread receives messages. The lock of the node is      *)
(* taken for the issue block and for each round of a poll loop.            *)
(***************************************************************************)
CallerQueries == {Expr(Pattern), Capped("1")}

CallerMessages ==
    {MessageData("query_answer_tokens_flow", <<AnswerBoth>>),
     MessageData("query_answers_finished", <<>>),
     MessageData("node_joined_network", <<>>),
     MessageData("shutdown", <<AnswerBoth>>)}

InitCallers ==
    /\ kind = "distributed"
    /\ index = <<>>
    /\ events = <<>>
    /\ call = NoCall
    /\ ret = "none"
    /\ qres = <<>>
    /\ TranslateIdle
    /\ MapperIdle
    /\ das_node = DASNode_new
    /\ bus = <<>>
    /\ remote \in [reachable : BOOLEAN, delivered : {0}, in_flight : {0},
                  answered : {0}, finished : {FALSE}]
    /\ qw = [QwIdle EXCEPT !.pc = "start"]
    /\ qw2 = [QwIdle EXCEPT !.pc = "start"]
    /\ px = PxIdle
    /\ op = OpIdle

Q2Begin(q) ==
    /\ qw2.pc = "start"
    /\ qw2' = DistributedAtomSpace_query_begin(Self, q)
    /\ UNCHANGED <<spaceVars, translateVars, mapperVars, das_node, bus, remote, qw, px, op>>

Q2Issue ==
    /\ qw2.pc = "issue"
    /\ NodeLockFree(qw)
    /\ LET r == query_with_das_issue(das_node, bus, remote, qw2, Self.name)
       IN /\ das_node' = r.node
          /\ bus' = r.bus
          /\ qw2' = r.qw
          /\ remote' = remote_after(remote, bus, r.bus)
    /\ UNCHANGED <<spaceVars, translateVars, mapperVars, qw, px, op>>

Q2Take ==
    /\ qw2.pc = "take"
    /\ NodeLockFree(qw)
    /\ LET r == query_with_das_take(das_node, qw2)
       IN /\ das_node' = r.node
          /\ qw2' = r.qw
    /\ UNCHANGED <<spaceVars, translateVars, mapperVars, bus, remote, qw, px, op>>

Q2Check ==
    /\ qw2.pc = "check"
    /\ qw2' = query_with_das_check(das_node, qw2)
    /\ UNCHANGED <<spaceVars, translateVars, mapperVars, das_node, bus, remote, qw, px, op>>

NextCallers ==
    \/ \E q \in CallerQueries : QBegin(q)
    \/ \E q \in CallerQueries : Q2Begin(q)
    \/ QIssue
    \/ Q2Issue
    \/ QTake
    \/ Q2Take
    \/ QCheck
    \/ Q2Check
    \/ \E msg \in CallerMessages : Receive(msg)
    \/ SetStatus

SpecCallers == InitCallers /\ [][NextCallers]_vars

(***************************************************************************)
(* C14: with an answer cap c > 0 the loop never collects more than c       *)
(* Bindings (answers, for the binary) and leaves once c are collected,     *)
(* finished or not: cap 1 and 3 answers available give exactly 1 Bindings. *)
(* With cap 0 the loop is left only once finished is seen.                 *)
(***************************************************************************)
CapReached(l) == l.count > 0 /\ Len(l.bindings_set) >= l.count

C14_AnswerCap ==
    [][/\ qw'.count > 0 => Len(qw'.bindings_set) <= qw'.count
       /\ (qw.pc = "check" /\ qw' # qw /\ CapReached(qw)) => qw'.pc = "done"
       /\ (qw.pc = "check" /\ qw'.pc = "done" /\ qw.count = 0) =>
                das_node.status = "Ready"
       /\ (/\ qw.pc = "take" /\ qw'.pc = "check" /\ qw.count = 1
           /\ Len(get_results(das_node).results) = 3) =>
                Len(qw'.bindings_set) = 1
       /\ px'.max_query_answers > 0 => px'.count <= px'.max_query_answers
       /\ (/\ px.pc = "pop" /\ px'.count # px.count
           /\ px'.count = px.max_query_answers) => px'.pc = "done"
       /\ (px.pc # "done" /\ px'.pc = "done" /\ px.max_query_answers = 0) =>
                px.finished
      ]_vars

C14_Witness ==
    /\ qw.pc = "done"
    /\ qw.count = 1
    /\ Len(qw.bindings_set) = 1
    /\ das_node.status = "Processing"

(***************************************************************************)
(* C15: the Bindings built for an answer binds every variable of the query *)
(* whose name is a word of the answer to the word that follows the name:   *)
(* variables {x, y} and "x alpha y beta" give x -> alpha, y -> beta.       *)
(***************************************************************************)
BoundTo(b, name) == BindingOf(b, VarKey(Var(name))).val

C15_AnswerDecoding ==
    \A i \in DOMAIN qw.bindings_set :
        LET answer == qw.answers[i]
            b == qw.bindings_set[i]
        IN /\ \A idx \in DOMAIN answer :
                answer[idx] \in DOMAIN qw.variables =>
                    /\ idx + 1 <= Len(answer)
                    /\ BoundTo(b, answer[idx]) = Sym(answer[idx + 1])
           /\ (answer = AnswerBoth /\ DOMAIN qw.variables = {"x", "y"}) =>
                b = {[vars |-> {VarKey(Var("x"))}, val |-> Sym("alpha")],
                     [vars |-> {VarKey(Var("y"))}, val |-> Sym("beta")]}

C15_Witness ==
    /\ DOMAIN qw.variables = {"x", "y"}
    /\ \E i \in DOMAIN qw.bindings_set :
         /\ qw.answers[i] = AnswerBoth
         /\ BoundTo(qw.bindings_set[i], "x") = Sym("alpha")
         /\ BoundTo(qw.bindings_set[i], "y") = Sym("beta")

(***************************************************************************)
(* C16: when the send of the pattern_matching_query fails, the caller      *)
(* stops at once with the failure and never enters its poll loop.          *)
(***************************************************************************)
C16_SendFailure ==
    [][/\ (/\ qw.pc = "issue" /\ qw' # qw
           /\ is_complete(das_node) /\ ~remote.reachable) =>
                (qw'.pc = "panicked" /\ ~qw'.polled)
       /\ qw.pc = "panicked" => qw' = qw
       /\ (px.pc = "issue" /\ px' # px /\ ~remote.reachable) => px'.pc = "error"
       /\ px.pc = "error" => px' = px
      ]_vars

C16_Witness ==
    /\ qw.pc = "panicked"
    /\ qw.pattern # <<>>
    /\ ~remote.reachable
    /\ das_node.status = "Processing"
    /\ ~qw.polled
    /\ bus = <<>>

(***************************************************************************)
(* C17: handling a message whose command is not recognised leaves the      *)
(* node's status and its results buffer as they were.                      *)
(***************************************************************************)
C17_UnknownIgnored ==
    [][/\ (das_node.handling = <<>> /\ das_node'.handling = <<"Unknown">>) =>
                das_node'.results = das_node.results
       /\ (das_node.handling = <<"Unknown">> /\ das_node'.handling = <<>>) =>
                /\ das_node'.results = das_node.results
                /\ das_node'.status = das_node.status
      ]_vars

LocalIndexes == SeqsUpTo(LocalAtoms, MaxLocal)

C19_QueryIgnoresIndex ==
    [][/\ (qw.pc = "start" /\ qw' # qw) =>
            \E q \in DasQueries :
                \A idx \in LocalIndexes :
                    DistributedAtomSpace_query_begin([Self EXCEPT !.index = idx], q) = qw'
       /\ (qw' # qw \/ das_node.results # das_node'.results) =>
            /\ index' = index
            /\ atom_count(Self)' = Len(index)
            /\ visit(Self)' = index
       /\ index' # index => qw' = qw
      ]_vars

C19_Witness ==
    /\ index # <<>>
    /\ qw.pc = "done"
    /\ qw.bindings_set # <<>>
    /\ atom_count(Self) = 1

(***************************************************************************)
(* C20: NewDasOp::execute returns an execution error, makes no DAS node    *)
(* and gives no space handle unless it is given exactly two arguments that *)
(* are both host:port endpoints with a 16-bit port.                        *)
(***************************************************************************)
IsEndpoint(text) ==
    \E i \in DOMAIN text :
        /\ text[i] = ":"
        /\ \A j \in 1..(i - 1) : text[j] # ":"
        /\ i < Len(text)
        /\ \A j \in (i + 1)..Len(text) : IsDigit(text[j])
        /\ DecimalValue(SubSeq(text, i + 1, Len(text))) < 65536

C23_SingleArgumentUnit ==
    (op.pc = "done" /\ op.args = <<Sym("A")>>) =>
        [ret |-> op.ret, atoms |-> op.atoms] = unit_result

(***************************************************************************)
(* C30: the Bindings built for one answer binds only variables whose names *)
(* appear in that answer; a query variable absent from the answer is not   *)
(* bound, neither to a value carried over from an earlier answer nor to    *)
(* the empty initial value.                                                *)
(***************************************************************************)
NamedIn(answer) == {VarKey(Var(answer[idx])) : idx \in DOMAIN answer}

C30_OnlyAnsweredVariables ==
    \A i \in DOMAIN qw.bindings_set :
        BoundKeys(qw.bindings_set[i]) \subseteq NamedIn(qw.answers[i])

(***************************************************************************)
(* C21: on one DAS node at most one pattern_matching_query is in flight at *)
(* any time: between the issue of a query and the reception of its         *)
(* query_answers_finished no second query is sent, whatever the            *)
(* interleaving of the concurrent callers and of the incoming messages.    *)
(***************************************************************************)
C21_OneInFlight == remote.in_flight <= 1

(***************************************************************************)
(* C31: the poll loops have no timeout: query_with_das leaves its loop     *)
(* only when it reads status Ready or, with a cap greater than 0, when it  *)
(* holds cap answers, and the binary only when proxy.finished() or when it *)
(* counted cap answers; as long as neither is the case the caller stays in *)
(* its loop and does not return.                                           *)
(***************************************************************************)
InPollLoop(l) == l.pc \in {"take", "check"}

C31_NoTimeout ==
    [][/\ (InPollLoop(qw) /\ qw'.pc = "done") =>
                (das_node.status = "Ready" \/ CapReached(qw))
       /\ (/\ InPollLoop(qw) /\ das_node.status # "Ready"
           /\ ~CapReached(qw) /\ ~CapReached(qw')) => qw'.pc # "done"
       /\ (px.pc \in {"while", "pop"} /\ px'.pc = "done") =>
                \/ px.finished
                \/ px.max_query_answers > 0 /\ px'.count = px.max_query_answers
      ]_vars

C31_Witness ==
    /\ InPollLoop(qw)
    /\ qw.sent = 1
    /\ qw.polled
    /\ remote.delivered = MaxMsgs
    /\ remote.answered >= 1
    /\ Len(qw.bindings_set) = remote.answered
    /\ das_node.status = "Processing"
    /\ das_node.handling = <<>>
    /\ ~CapReached(qw)

(***************************************************************************)
(* C33: DASNode.query sends exactly one message: command                   *)
(* pattern_matching_query, is_broadcast false, no visited recipients, the  *)
(* sender the node's own host:port, and args the server host:port, the     *)
(* context and the update_attention_broker flag followed by the tokens of  *)
(* the pattern in their order.                                             *)
(***************************************************************************)
ExpectedQuery(pattern) ==
    [command |-> "pattern_matching_query",
     args |-> <<"0.0.0.0:8080", "context", "false">> \o pattern,
     sender |-> "0.0.0.0:8080",
     is_broadcast |-> FALSE,
     visited_recipients |-> <<>>]

C33_QueryMessage ==
    [][/\ (qw.pc = "issue" /\ bus' # bus) =>
                bus' = Append(bus, ExpectedQuery(qw.pattern))
       /\ (/\ qw.pc = "issue" /\ qw' # qw
           /\ is_complete(das_node) /\ remote.reachable) =>
                Len(bus') = Len(bus) + 1
      ]_vars

C33_Witness ==
    /\ qw.sent = 1
    /\ bus = <<ExpectedQuery(<<"LINK_TEMPLATE", "Expression", "3", "NODE",
                               "Symbol", "Similarity", "VARIABLE", "x",
                               "VARIABLE", "y">>)>>

(***************************************************************************)
(* C34: a transport failure while the query is issued reaches the caller   *)
(* of the query as an error value, not as a panic, and the send is tried   *)
(* once.                                                                   *)
(***************************************************************************)
C34_FailureIsValue ==
    [][(/\ qw.pc = "issue" /\ qw' # qw
        /\ is_complete(das_node) /\ ~remote.reachable) =>
            (qw'.pc # "panicked" /\ bus' = bus)]_vars

(***************************************************************************)
(* C37: a call of query_with_das that reaches its poll loop has sent       *)
(* exactly one pattern_matching_query before, whatever the status of the   *)
(* node at the time of the call.                                           *)
(***************************************************************************)
C37_AlwaysSent ==
    [][(qw.pc = "issue" /\ qw'.pc = "take") =>
            (Len(bus') = Len(bus) + 1 /\ qw'.sent = 1)]_vars

(***************************************************************************)
(* C38: the status is Processing only while a query of this node is        *)
(* outstanding: a message handled while none is never makes is_complete()  *)
(* false.                                                                  *)
(***************************************************************************)
C38_ProcessingOnlyInFlight ==
    [][(/\ das_node.handling # <<>> /\ das_node'.handling = <<>>
        /\ remote.in_flight = 0
        /\ is_complete(das_node)) => is_complete(das_node')]_vars

(***************************************************************************)
(* C39: when DASNode.query fails to send its message the node is as before *)
(* the call: the status is not left at Processing and is_complete() holds. *)
(***************************************************************************)
C39_FailedSendRestores ==
    [][(/\ qw.pc = "issue" /\ qw' # qw
        /\ is_complete(das_node) /\ ~remote.reachable) =>
            (das_node' = das_node /\ is_complete(das_node'))]_vars

(***************************************************************************)
(* C35: with no answer cap, every answer delivered by a                    *)
(* query_answer_tokens_flow message before query_answers_finished yields   *)
(* one Bindings of the returned set, however the handling of the messages  *)
(* and the reads of the poller interleave.                                 *)
(***************************************************************************)
C35_NoAnswerLost ==
    (qw.pc = "done" /\ qw.polled /\ qw.count = 0) =>
        Len(qw.bindings_set) >= remote.answered

(***************************************************************************)
(* C32: once the query has been issued and the remote delivers             *)
(* query_answers_finished, the poll loop of query_with_das is eventually   *)
(* left under fair scheduling of the poller, whatever other messages are   *)
(* delivered before or after it. (Leaving by the panic on a malformed      *)
(* answer is counted as leaving: the claim is about the finished signal.)  *)
(***************************************************************************)
FinishedDelivered ==
    /\ InPollLoop(qw)
    /\ qw.sent = 1
    /\ remote.in_flight = 0
    /\ das_node.handling = <<"Ready">>

C32_FinishedReturns == FinishedDelivered ~> (qw.pc \in {"done", "panicked"})

(***************************************************************************)
(* C36: after a query that ended early because its answer cap was reached, *)
(* a later query on the same node is sent to the remote, and what the node *)
(* holds when the later query starts polling was delivered for it: no      *)
(* answer of the abandoned query is left for the later one to take.        *)
(***************************************************************************)
EndedByCap(l) == l.pc = "done" /\ l.sent = 1 /\ l.polled /\ CapReached(l)

C36_LaterQueryClean ==
    [][(/\ EndedByCap(qw)
        /\ qw2.pc = "issue" /\ qw2'.pc = "take"
        /\ remote.reachable) =>
            /\ Len(bus') = Len(bus) + 1
            /\ das_node'.results = <<>>]_vars

(***************************************************************************)
(* The CachingMapper specification: replace is called, directly or through *)
(* the closure of as_fn_mut, on keys in any order. The mapper is any       *)
(* Fn(K) -> V: what it returns for a key may differ from one invocation to *)
(* the next (a mapper that makes fresh variables), so its result is an     *)
(* input of the call, used only when the mapper is invoked.                *)
(***************************************************************************)
MaxCalls == 3

MapperKeys == {"x", "y", "z"}
MapperValues == {"x#1", "x#2"}

(* CachingMapper::replace; computed is what the mapper returns if invoked *)
CachingMapper_replace_uncached(self, key, computed) ==
    [self |-> [self EXCEPT !.mapping =
                    [k \in DOMAIN self.mapping \cup {key} |->
                        IF k = key THEN computed ELSE self.mapping[k]]],
     ret |-> computed,
     invoked |-> TRUE]

CachingMapper_replace(self, key, computed) ==
    IF key \in DOMAIN self.mapping
    THEN [self |-> self, ret |-> self.mapping[key], invoked |-> FALSE]
    ELSE [self |-> [self EXCEPT !.mapping =
                        [k \in DOMAIN self.mapping \cup {key} |->
                            IF k = key THEN computed ELSE self.mapping[k]]],
          ret |-> computed,
          invoked |-> TRUE]

(* the closure returned by as_fn_mut: move |k| { self.replace(k) } *)
CachingMapper_as_fn_mut(self, key, computed) ==
    CachingMapper_replace(self, key, computed)

InitMapper ==
    /\ kind = "grounding"
    /\ index = <<>>
    /\ events = <<>>
    /\ call = NoCall
    /\ ret = "none"
    /\ qres = <<>>
    /\ TranslateIdle
    /\ MapperIdle
    /\ DasIdle

MapperCall(key, via, r) ==
    /\ Len(cm.calls) < MaxCalls
    /\ cm' = [self |-> r.self,
              calls |-> Append(cm.calls, [key |-> key, via |-> via, ret |-> r.ret,
                                          invoked |-> r.invoked])]
    /\ UNCHANGED <<spaceVars, translateVars, dasVars>>

Replace(key, computed) ==
    MapperCall(key, "replace", CachingMapper_replace(cm.self, key, computed))

AsFnMut(key, computed) ==
    MapperCall(key, "as_fn_mut", CachingMapper_as_fn_mut(cm.self, key, computed))

NextMapper ==
    \/ \E key \in MapperKeys, computed \in MapperValues : Replace(key, computed)
    \/ \E key \in MapperKeys, computed \in MapperValues : AsFnMut(key, computed)

SpecMapper == InitMapper /\ [][NextMapper]_vars

(***************************************************************************)
(* C40: over any sequence of replace calls the mapper is invoked at most   *)
(* once per key, every call for a key returns the value computed at the    *)
(* first call for it, and replace never removes or overwrites an entry of  *)
(* the mapping.                                                            *)
(***************************************************************************)
C40_ComputedOnce ==
    [][/\ \A key \in MapperKeys :
            Cardinality({i \in DOMAIN cm'.calls :
                            cm'.calls[i].key = key /\ cm'.calls[i].invoked}) <= 1
       /\ \A i \in DOMAIN cm'.calls :
            LET first == CHOOSE j \in DOMAIN cm'.calls :
                            /\ cm'.calls[j].key = cm'.calls[i].key
                            /\ \A k \in 1..(j - 1) :
                                    cm'.calls[k].key # cm'.calls[i].key
            IN cm'.calls[i].ret = cm'.calls[first].ret
       /\ \A key \in DOMAIN cm.self.mapping :
            /\ key \in DOMAIN cm'.self.mapping
            /\ cm'.self.mapping[key] = cm.self.mapping[key]
      ]_vars

C40_Witness ==
    /\ Len(cm.calls) = MaxCalls
    /\ \E i, j \in DOMAIN cm.calls :
            /\ i < j
            /\ cm.calls[i].key = cm.calls[j].key
            /\ cm.calls[i].invoked /\ ~cm.calls[j].invoked
            /\ cm.calls[i].via # cm.calls[j].via
            /\ cm.calls[j].ret = cm.calls[i].ret
    /\ Cardinality(DOMAIN cm.self.mapping) = 2
    /\ \E k1, k2 \in DOMAIN cm.self.mapping :
            cm.self.mapping[k1] # cm.self.mapping[k2]

====
